---------------------------- MODULE Spec2Model ----------------------------
(***************************************************************************)
(* InAppBrowser-Escaper: the user-agent classifier (InAppBrowserDetector)  *)
(* and the escape orchestrator with its redirect-strategy engine           *)
(* (InAppBrowserEscaper).                                                  *)
(*                                                                         *)
(* Strings the code inspects or rewrites (user-agent strings, URLs) are    *)
(* sequences of one-character strings, so that a regular expression of the *)
(* source is a search over characters and not a lookup of a label.         *)
(***************************************************************************)
EXTENDS Integers, Sequences, FiniteSets, TLC

VARIABLES
  userAgent,    \* navigator.userAgent
  uaInput,      \* the parts navigator.userAgent was assembled from
  windowSafari, \* typeof window.safari !== 'undefined'
  windowWebkit, \* typeof window.webkit !== 'undefined'
  snapshot,     \* the BrowserInfo returned by the latest analyze() call
  returned,     \* what the calls of the detector by the application returned
  locationHref, \* window.location.href
  debug,        \* InAppBrowserEscaper.defaultOptions.debug
  body,         \* the elements the library has put into document.body
  requests,     \* the navigation and window-opening calls made so far
  clipboard,    \* the copyUrlToClipboard calls made so far
  timers,       \* the pending setTimeout callbacks, in the order they were set
  runs,         \* the performRedirect runs started so far
  console,      \* the lines written to the console
  created,      \* the number of elements created so far
  call,         \* the latest escape() call: its options, snapshot, URL and return value
  budget        \* the escape() calls and the failing browser calls still to come

vars ==
  <<userAgent, uaInput, windowSafari, windowWebkit, snapshot, returned, locationHref, debug,
    body, requests, clipboard, timers, runs, console, created, call, budget>>

undefined == "undefined"

(***************************************************************************)
(* Characters and the regular-expression primitives the source uses.       *)
(***************************************************************************)
UpperChars ==
  <<"A","B","C","D","E","F","G","H","I","J","K","L","M","N","O","P","Q","R","S","T","U","V","W","X","Y","Z">>

LowerChars ==
  <<"a","b","c","d","e","f","g","h","i","j","k","l","m","n","o","p","q","r","s","t","u","v","w","x","y","z">>

DigitChars == <<"0","1","2","3","4","5","6","7","8","9">>

IsUpper(c) == \E k \in 1..26 : UpperChars[k] = c

IsDigit(c) == \E k \in 1..10 : DigitChars[k] = c

LowerMap == [c \in {UpperChars[k] : k \in 1..26} |-> LowerChars[CHOOSE k \in 1..26 : UpperChars[k] = c]]

UpperMap == [c \in {LowerChars[k] : k \in 1..26} |-> UpperChars[CHOOSE k \in 1..26 : LowerChars[k] = c]]

ToUpper(s) == [i \in 1..Len(s) |-> IF s[i] \in DOMAIN UpperMap THEN UpperMap[s[i]] ELSE s[i]]

\* the case folding of the i flag
ToLower(s) == [i \in 1..Len(s) |-> IF s[i] \in DOMAIN LowerMap THEN LowerMap[s[i]] ELSE s[i]]

\* the literal p occurs in s at position i
MatchAt(s, i, p) ==
  /\ i >= 1
  /\ i + Len(p) - 1 <= Len(s)
  /\ \A j \in 1..Len(p) : s[i + j - 1] = p[j]

\* /p/.test(s) for a literal p
Test(s, p) ==
  \E i \in 1..(Len(s) - Len(p) + 1) :
    s[i] = p[1] /\ \A j \in 2..Len(p) : s[i + j - 1] = p[j]

\* /a|b|c/.test(s)
TestAny(s, alts) == \E a \in 1..Len(alts) : Test(s, alts[a])

\* /a|b|c/i.test(s), given folded = ToLower(s)
TestAnyI(folded, alts) == \E a \in 1..Len(alts) : Test(folded, ToLower(alts[a]))

\* /p$/.test(s)
TestAtEnd(s, p) == MatchAt(s, Len(s) - Len(p) + 1, p)

\* /a.*b.*c$/i.test(s): the parts in order, the last one ending the string
RECURSIVE ChainFrom(_, _, _, _)
ChainFrom(s, parts, k, from) ==
  IF k = Len(parts)
  THEN Len(s) - Len(parts[k]) + 1 >= from /\ TestAtEnd(s, parts[k])
  ELSE \E i \in from..(Len(s) - Len(parts[k]) + 1) :
         MatchAt(s, i, parts[k]) /\ ChainFrom(s, parts, k + 1, i + Len(parts[k]))

\* /a.*b.*c$/i.test(s), given folded = ToLower(s)
TestChainI(folded, parts) ==
  ChainFrom(folded, [k \in 1..Len(parts) |-> ToLower(parts[k])], 1, 1)

(***************************************************************************)
(* InAppBrowserDetector                                                    *)
(***************************************************************************)
\* Object.entries order is the order of the literal.  An entry is an
\* alternation of literals (alts) or, for android_webview, literals joined
\* by .* with the last one anchored at the end (chain); all carry the i flag.
AppSignatures ==
  <<
    [appName |-> "instagram", chain |-> FALSE, alts |-> <<
        <<"i","n","s","t","a","g","r","a","m">>>>],
    [appName |-> "facebook", chain |-> FALSE, alts |-> <<
        <<"F","B","A","N">>,
        <<"F","B","A","V">>,
        <<"F","B","_","I","A","B">>>>],
    [appName |-> "twitter", chain |-> FALSE, alts |-> <<
        <<"T","w","i","t","t","e","r","A","n","d","r","o","i","d">>,
        <<"T","w","i","t","t","e","r"," ","f","o","r"," ","i","P","h","o","n","e">>>>],
    [appName |-> "whatsapp", chain |-> FALSE, alts |-> <<
        <<"W","h","a","t","s","A","p","p">>>>],
    [appName |-> "snapchat", chain |-> FALSE, alts |-> <<
        <<"S","n","a","p","c","h","a","t">>>>],
    [appName |-> "tiktok", chain |-> FALSE, alts |-> <<
        <<"m","u","s","i","c","a","l","_","l","y">>,
        <<"T","i","k","T","o","k">>>>],
    [appName |-> "linkedin", chain |-> FALSE, alts |-> <<
        <<"L","i","n","k","e","d","I","n","A","p","p">>>>],
    [appName |-> "wechat", chain |-> FALSE, alts |-> <<
        <<"M","i","c","r","o","M","e","s","s","e","n","g","e","r">>>>],
    [appName |-> "line", chain |-> FALSE, alts |-> <<
        <<"L","i","n","e">>>>],
    [appName |-> "kakaotalk", chain |-> FALSE, alts |-> <<
        <<"K","A","K","A","O","T","A","L","K">>>>],
    [appName |-> "chrome_custom_tabs", chain |-> FALSE, alts |-> <<
        <<";"," ","w","v",")">>,
        <<"C","C","T">>,
        <<"C","u","s","t","o","m","T","a","b","s","I","n","t","e","n","t">>>>]
  >>

\* the table with the crawler entry telegram: /TelegramBot/i
IN_APP_PATTERNS_WithTelegram ==
  AppSignatures \o
  <<[appName |-> "telegram", chain |-> FALSE, alts |-> <<
        <<"T","e","l","e","g","r","a","m","B","o","t">>>>],
    [appName |-> "android_webview", chain |-> TRUE, alts |-> <<
        <<"A","n","d","r","o","i","d">>,
        <<"C","h","r","o","m","e","/">>,
        <<"M","o","b","i","l","e">>,
        <<"S","a","f","a","r","i","/","5","3","7",".","3","6">>>>]>>

IN_APP_PATTERNS ==
  AppSignatures \o
  <<[appName |-> "android_webview", chain |-> TRUE, alts |-> <<
        <<"A","n","d","r","o","i","d">>,
        <<"C","h","r","o","m","e","/">>,
        <<"M","o","b","i","l","e">>,
        <<"S","a","f","a","r","i","/","5","3","7",".","3","6">>>>]>>

\* pattern.test(userAgent) for an entry of IN_APP_PATTERNS, given folded = ToLower(userAgent)
PatternTest(p, folded) ==
  IF p.chain THEN TestChainI(folded, p.alts) ELSE TestAnyI(folded, p.alts)

\* variant: the desktop tokens are tested before the mobile ones
getPlatform_DesktopFirst(ua) ==
  IF Test(ua, <<"W","i","n","d","o","w","s">>) THEN "windows"
  ELSE IF Test(ua, <<"M","a","c">>) THEN "mac"
  ELSE IF Test(ua, <<"L","i","n","u","x">>) THEN "linux"
  ELSE IF TestAnyI(ToLower(ua), <<<<"a","n","d","r","o","i","d">>>>) THEN "android"
  ELSE IF TestAny(ua, <<<<"i","P","a","d">>,
                       <<"i","P","h","o","n","e">>,
                       <<"i","P","o","d">>>>) THEN "ios"
  ELSE "unknown"

getPlatform(ua) ==
  IF TestAnyI(ToLower(ua), <<<<"a","n","d","r","o","i","d">>>>) THEN "android"
  ELSE IF TestAny(ua, <<<<"i","P","a","d">>,
                       <<"i","P","h","o","n","e">>,
                       <<"i","P","o","d">>>>) THEN "ios"
  ELSE IF Test(ua, <<"W","i","n","d","o","w","s">>) THEN "windows"
  ELSE IF Test(ua, <<"M","a","c">>) THEN "mac"
  ELSE IF Test(ua, <<"L","i","n","u","x">>) THEN "linux"
  ELSE "unknown"

\* the three string tests of isIOSSafariInApp: none of them has returned false,
\* so window.safari and window.webkit are read next
ReachesWindowProbe(ua) ==
  IF ~TestAny(ua, <<<<"i","P","h","o","n","e">>,
                  <<"i","P","a","d">>,
                  <<"i","P","o","d">>>>)
  THEN FALSE
  ELSE IF ~(Test(ua, <<"S","a","f","a","r","i">>)
            /\ ~TestAny(ua, <<<<"C","r","i","O","S">>,
                         <<"F","x","i","O","S">>,
                         <<"O","P","i","O","S">>,
                         <<"E","d","g","i","O","S">>>>))
  THEN FALSE
  ELSE IF TestAny(ua, <<<<"C","h","r","o","m","e">>,
                       <<"F","i","r","e","f","o","x">>,
                       <<"O","p","e","r","a">>,
                       <<"E","d","g","e">>>>)
  THEN FALSE
  ELSE TRUE

isIOSSafariInApp(ua, safariDefined, webkitDefined) ==
  IF ~ReachesWindowProbe(ua)
  THEN FALSE
  ELSE IF ~safariDefined /\ webkitDefined
  THEN TRUE
  ELSE FALSE

\* /Version\/[\d.]+/
VersionIndicator(ua) ==
  \E i \in 1..Len(ua) :
    /\ MatchAt(ua, i, <<"V","e","r","s","i","o","n","/">>)
    /\ i + 8 <= Len(ua)
    /\ (IsDigit(ua[i + 8]) \/ ua[i + 8] = ".")

\* the positions k of the "; " that "Android [^;]+; " ends with when it is
\* matched from position i
DeviceClauseEnds(ua, i) ==
  IF MatchAt(ua, i, <<"A","n","d","r","o","i","d"," ">>)
  THEN {k \in (i + 9)..(Len(ua) - 1) :
          /\ \A j \in (i + 8)..(k - 1) : ua[j] # ";"
          /\ MatchAt(ua, k, <<";"," ">>)}
  ELSE {}

\* /Android [^;]+; [A-Z]\)/
SingleLetterModel(ua) ==
  \E i \in 1..Len(ua) : \E k \in DeviceClauseEnds(ua, i) :
    /\ k + 3 <= Len(ua)
    /\ IsUpper(ua[k + 2])
    /\ ua[k + 3] = ")"

\* /Android [^;]+; [A-Z]{1,3}\d*\)/
ShortModel(ua) ==
  \E i \in 1..Len(ua) : \E k \in DeviceClauseEnds(ua, i) :
    \E n \in 1..3 : \E e \in (k + 2 + n)..Len(ua) :
      /\ \A j \in (k + 2)..(k + 1 + n) : IsUpper(ua[j])
      /\ \A j \in (k + 2 + n)..(e - 1) : IsDigit(ua[j])
      /\ ua[e] = ")"

\* /Chrome\/1[2-9]\d\./
RecentChrome(ua) ==
  \E i \in 1..(Len(ua) - 10) :
    /\ MatchAt(ua, i, <<"C","h","r","o","m","e","/","1">>)
    /\ ua[i + 8] \in {"2", "3", "4", "5", "6", "7", "8", "9"}
    /\ IsDigit(ua[i + 9])
    /\ ua[i + 10] = "."

webViewIndicators(ua) == SingleLetterModel(ua) \/ ShortModel(ua) \/ RecentChrome(ua)

\* /Edge|EdgA|CriOS|FxiOS|OPiOS|SamsungBrowser|MiuiBrowser|Huawei|Mi Browser|Opera|OPR/i
KnownRealBrowser(ua) ==
  TestAnyI(ToLower(ua), <<<<"E","d","g","e">>,
                          <<"E","d","g","A">>,
                          <<"C","r","i","O","S">>,
                          <<"F","x","i","O","S">>,
                          <<"O","P","i","O","S">>,
                          <<"S","a","m","s","u","n","g","B","r","o","w","s","e","r">>,
                          <<"M","i","u","i","B","r","o","w","s","e","r">>,
                          <<"H","u","a","w","e","i">>,
                          <<"M","i"," ","B","r","o","w","s","e","r">>,
                          <<"O","p","e","r","a">>,
                          <<"O","P","R">>>>)

\* the heuristic without its fingerprint step: every Android Chrome that passes
\* the exclusions counts as a web view
isAndroidWebView_NoFingerprint(ua) ==
  IF ~Test(ua, <<"A","n","d","r","o","i","d">>) THEN FALSE
  ELSE IF ~Test(ua, <<"C","h","r","o","m","e","/">>) THEN FALSE
  ELSE IF ~Test(ua, <<"M","o","b","i","l","e">>) THEN FALSE
  ELSE IF ~TestAtEnd(ua, <<"S","a","f","a","r","i","/","5","3","7",".","3","6">>) THEN FALSE
  ELSE IF KnownRealBrowser(ua) THEN FALSE
  ELSE IF VersionIndicator(ua) THEN FALSE
  ELSE TRUE

\* the heuristic without the exclusion of known real browsers
isAndroidWebView_NoBrowserExclusion(ua) ==
  IF ~Test(ua, <<"A","n","d","r","o","i","d">>) THEN FALSE
  ELSE IF ~Test(ua, <<"C","h","r","o","m","e","/">>) THEN FALSE
  ELSE IF ~Test(ua, <<"M","o","b","i","l","e">>) THEN FALSE
  ELSE IF ~TestAtEnd(ua, <<"S","a","f","a","r","i","/","5","3","7",".","3","6">>) THEN FALSE
  ELSE IF VersionIndicator(ua) THEN FALSE
  ELSE webViewIndicators(ua)

isAndroidWebView(ua) ==
  IF ~Test(ua, <<"A","n","d","r","o","i","d">>) THEN FALSE
  ELSE IF ~Test(ua, <<"C","h","r","o","m","e","/">>) THEN FALSE
  ELSE IF ~Test(ua, <<"M","o","b","i","l","e">>) THEN FALSE
  ELSE IF ~TestAtEnd(ua, <<"S","a","f","a","r","i","/","5","3","7",".","3","6">>) THEN FALSE
  ELSE IF KnownRealBrowser(ua) THEN FALSE
  ELSE IF VersionIndicator(ua) THEN FALSE
  ELSE webViewIndicators(ua)

(***************************************************************************)
(* The user-agent strings navigator.userAgent is set to: each is assembled *)
(* from the parts real user agents are made of.                            *)
(***************************************************************************)
MaxMarkers == 2

RECURSIVE Decimal(_)
Decimal(n) ==
  IF n < 10 THEN <<DigitChars[n + 1]>>
  ELSE Decimal(n \div 10) \o <<DigitChars[(n % 10) + 1]>>

DeviceModels == {"K", "A", "AB12", "SM-G975F", "HUAWEI P30"}

ModelText(model) ==
  CASE model = "K" -> <<"K">>
    [] model = "A" -> <<"A">>
    [] model = "AB12" -> <<"A","B","1","2">>
    [] model = "SM-G975F" -> <<"S","M","-","G","9","7","5","F">>
    [] model = "HUAWEI P30" -> <<"H","U","A","W","E","I"," ","P","3","0">>

DeviceClause(device, model) ==
  CASE device = "windows" -> <<"(","W","i","n","d","o","w","s"," ","N","T"," ","1","0",".","0",";"," ","W","i","n","6","4",";"," ","x","6","4",")">>
    [] device = "mac" -> <<"(","M","a","c","i","n","t","o","s","h",";"," ","I","n","t","e","l"," ","M","a","c"," ","O","S"," ","X"," ","1","0","_","1","5","_","7",")">>
    [] device = "linux" -> <<"(","X","1","1",";"," ","L","i","n","u","x"," ","x","8","6","_","6","4",")">>
    [] device = "iphone" -> <<"(","i","P","h","o","n","e",";"," ","C","P","U"," ","i","P","h","o","n","e"," ","O","S"," ","1","4","_","0"," ","l","i","k","e"," ","M","a","c"," ","O","S"," ","X",")">>
    [] device = "android" -> <<"(","L","i","n","u","x",";"," ","A","n","d","r","o","i","d"," ","1","0",";"," ">>
                             \o ModelText(model) \o <<")">>

ChromeMajors == {91, 119, 120, 130, 200, 1200}

ChromeToken(major) ==
  <<"C","h","r","o","m","e","/">> \o Decimal(major) \o
  (CASE major = 91 -> <<".","0",".","4","4","7","2",".","1","6","4">>
     [] major = 120 -> <<".","0",".","6","0","9","9",".","4","3">>
     [] major = 130 -> <<".","0",".","6","7","2","3",".","5","8">>
     [] OTHER -> <<".","0",".","0",".","0">>)

VendorToken(vendor) ==
  CASE vendor = "SamsungBrowser" -> <<"S","a","m","s","u","n","g","B","r","o","w","s","e","r","/","1","4",".","0">>
    [] vendor = "OPR" -> <<"O","P","R","/","6","3",".","3",".","3","2","1","6">>

SafariToken(safari) ==
  CASE safari = "537.36" -> <<"S","a","f","a","r","i","/","5","3","7",".","3","6">>
    [] safari = "604.1" -> <<"S","a","f","a","r","i","/","6","0","4",".","1">>

\* the markers appended to a user agent, in the order they are appended
MarkerOrder ==
  <<"wv", "Instagram", "FBAN", "FBAV", "FB_IAB",
    "TwitterAndroid", "TwitterForIPhone", "WhatsApp", "Snapchat", "musical_ly",
    "TikTok", "LinkedInApp", "MicroMessenger", "Line", "KAKAOTALK",
    "CCT", "CustomTabsIntent", "TelegramBot", "InstagramProduct", "AndroidBridge">>

MarkerText(m) ==
  CASE m = "wv" -> <<";"," ","w","v",")">>
    [] m = "Instagram" -> <<"I","n","s","t","a","g","r","a","m"," ","1","5","4",".","0",".","0",".","3","7",".","1","2","0">>
    [] m = "FBAN" -> <<"[","F","B","A","N","/","F","B","I","O","S",";","F","B","D","V","/","i","P","h","o","n","e","1","2",",","1","]">>
    [] m = "FBAV" -> <<"[","F","B","A","V","/","3","0","0",".","0",".","0",".","1","]">>
    [] m = "FB_IAB" -> <<"[","F","B","_","I","A","B","/","F","B","4","A","]">>
    [] m = "TwitterAndroid" -> <<"T","w","i","t","t","e","r","A","n","d","r","o","i","d">>
    [] m = "TwitterForIPhone" -> <<"T","w","i","t","t","e","r"," ","f","o","r"," ","i","P","h","o","n","e">>
    [] m = "WhatsApp" -> <<"W","h","a","t","s","A","p","p","/","2",".","2","1",".","4">>
    [] m = "Snapchat" -> <<"S","n","a","p","c","h","a","t","/","1","1",".","0">>
    [] m = "musical_ly" -> <<"m","u","s","i","c","a","l","_","l","y","_","2","1",".","1",".","0">>
    [] m = "TikTok" -> <<"T","i","k","T","o","k"," ","2","1",".","1",".","0">>
    [] m = "LinkedInApp" -> <<"L","i","n","k","e","d","I","n","A","p","p">>
    [] m = "MicroMessenger" -> <<"M","i","c","r","o","M","e","s","s","e","n","g","e","r","/","8",".","0",".","1">>
    [] m = "Line" -> <<"L","i","n","e","/","1","1",".","0",".","0">>
    [] m = "KAKAOTALK" -> <<"K","A","K","A","O","T","A","L","K"," ","9",".","0",".","0">>
    [] m = "CCT" -> <<"C","C","T">>
    [] m = "CustomTabsIntent" -> <<"C","u","s","t","o","m","T","a","b","s","I","n","t","e","n","t">>
    [] m = "TelegramBot" -> <<"T","e","l","e","g","r","a","m","B","o","t"," ","(","l","i","k","e"," ","T","w","i","t","t","e","r","B","o","t",")">>
    [] m = "InstagramProduct" -> <<>>
    [] m = "AndroidBridge" -> <<"A","n","d","r","o","i","d","B","r","i","d","g","e","/","1",".","0">>

\* the marker of the Instagram app as a product token in front of the Chrome
\* token
InstagramProductToken == <<"I","n","s","t","a","g","r","a","m","/","1","5","4",".","0">>

\* the parts, joined by single spaces ("; wv)" follows its predecessor directly)
RECURSIVE JoinParts(_, _)
JoinParts(parts, k) ==
  IF k = 0 THEN <<>>
  ELSE LET head == JoinParts(parts, k - 1)
       IN  IF parts[k] = <<>> THEN head
           ELSE IF head = <<>> \/ parts[k][1] = ";" THEN head \o parts[k]
           ELSE head \o <<" ">> \o parts[k]

Render(u) ==
  LET fixed ==
        << IF u.device = "none" THEN <<>> ELSE
             <<"M","o","z","i","l","l","a","/","5",".","0">>,
           IF u.device = "none" THEN <<>> ELSE DeviceClause(u.device, u.model),
           IF u.device = "none" THEN <<>> ELSE
             <<"A","p","p","l","e","W","e","b","K","i","t","/","5","3","7",".","3","6"," ","(","K","H","T","M","L",","," ","l","i","k","e"," ","G","e","c","k","o",")">>,
           IF u.version THEN <<"V","e","r","s","i","o","n","/","4",".","0">> ELSE <<>>,
           IF u.vendor = "none" THEN <<>> ELSE VendorToken(u.vendor),
           IF "InstagramProduct" \in u.markers THEN InstagramProductToken ELSE <<>>,
           IF u.chrome = 0 THEN <<>> ELSE ChromeToken(u.chrome),
           IF u.mobile THEN <<"M","o","b","i","l","e">> ELSE <<>>,
           IF u.safari = "none" THEN <<>> ELSE SafariToken(u.safari) >>
      marks == [k \in 1..Len(MarkerOrder) |->
                  IF MarkerOrder[k] \in u.markers THEN MarkerText(MarkerOrder[k]) ELSE <<>>]
      parts == fixed \o marks
      text == JoinParts(parts, Len(parts))
  IN  CASE u.casing = "lower" -> ToLower(text)
        [] u.casing = "upper" -> ToUpper(text)
        [] OTHER -> text

MarkerNames == {MarkerOrder[k] : k \in 1..Len(MarkerOrder)}

Devices ==
  {[device |-> d, model |-> "-"] : d \in {"none", "windows", "mac", "linux", "iphone"}}
  \cup {[device |-> "android", model |-> m] : m \in DeviceModels}

\* user agents of browsers and of generic web views: no app marker
BrowserUAs ==
  {[device |-> d.device, model |-> d.model, version |-> v, vendor |-> b, chrome |-> c,
    mobile |-> mo, safari |-> s, markers |-> {}, casing |-> "as is"] :
     d \in Devices, v \in BOOLEAN, b \in {"none", "SamsungBrowser", "OPR"},
     c \in ChromeMajors \cup {0}, mo \in BOOLEAN, s \in {"none", "537.36", "604.1"}}

\* the user agents the markers are appended to
MarkedBases ==
  { [device |-> "none", model |-> "-", version |-> FALSE, vendor |-> "none", chrome |-> 0,
     mobile |-> FALSE, safari |-> "none"],
    [device |-> "iphone", model |-> "-", version |-> FALSE, vendor |-> "none", chrome |-> 0,
     mobile |-> TRUE, safari |-> "604.1"],
    [device |-> "android", model |-> "K", version |-> FALSE, vendor |-> "none", chrome |-> 130,
     mobile |-> TRUE, safari |-> "537.36"],
    [device |-> "android", model |-> "SM-G975F", version |-> TRUE, vendor |-> "none", chrome |-> 91,
     mobile |-> TRUE, safari |-> "537.36"],
    [device |-> "android", model |-> "SM-G975F", version |-> FALSE, vendor |-> "none", chrome |-> 91,
     mobile |-> TRUE, safari |-> "537.36"],
    [device |-> "android", model |-> "SM-G975F", version |-> FALSE, vendor |-> "SamsungBrowser",
     chrome |-> 91, mobile |-> TRUE, safari |-> "537.36"] }

MarkedUAs ==
  {[device |-> b.device, model |-> b.model, version |-> b.version, vendor |-> b.vendor,
    chrome |-> b.chrome, mobile |-> b.mobile, safari |-> b.safari, markers |-> ms,
    casing |-> "as is"] :
     b \in MarkedBases,
     ms \in {x \in SUBSET MarkerNames : x # {} /\ Cardinality(x) <= MaxMarkers}}

\* the device clauses in another letter case
CaseUAs ==
  {[device |-> d.device, model |-> d.model, version |-> FALSE, vendor |-> "none", chrome |-> 0,
    mobile |-> FALSE, safari |-> "none", markers |-> {}, casing |-> c] :
     d \in Devices, c \in {"lower", "upper"}}

UserAgents == BrowserUAs \cup MarkedUAs \cup CaseUAs

(***************************************************************************)
(* analyze(): the rule cascade.                                            *)
(***************************************************************************)
\* the for loop over Object.entries(IN_APP_PATTERNS): the index of the first
\* entry that is not skipped and whose pattern matches, 0 when the loop ends
\* the loop without its early return: the last matching entry decides
RECURSIVE FirstPattern_LastWins(_, _)
FirstPattern_LastWins(folded, i) ==
  IF i > Len(IN_APP_PATTERNS) THEN 0
  ELSE LET later == FirstPattern_LastWins(folded, i + 1)
       IN  IF later # 0 THEN later
           ELSE IF IN_APP_PATTERNS[i].appName = "android_webview" THEN 0
           ELSE IF PatternTest(IN_APP_PATTERNS[i], folded) THEN i
           ELSE 0

RECURSIVE FirstPattern(_, _)
FirstPattern(folded, i) ==
  IF i > Len(IN_APP_PATTERNS) THEN 0
  ELSE IF IN_APP_PATTERNS[i].appName = "android_webview" THEN FirstPattern(folded, i + 1)
  ELSE IF PatternTest(IN_APP_PATTERNS[i], folded) THEN i
  ELSE FirstPattern(folded, i + 1)

\* variant: the snapshot of a page that is not in-app names it "browser", and
\* the generic-WebView verdict fixes the platform
analyze_NamesEveryPage(ua, safariDefined, webkitDefined) ==
  LET i == FirstPattern(ToLower(ua), 1)
  IN  IF i # 0
      THEN [isInApp |-> TRUE, platform |-> getPlatform(ua), userAgent |-> ua,
            appName |-> IN_APP_PATTERNS[i].appName]
      ELSE IF isIOSSafariInApp(ua, safariDefined, webkitDefined)
      THEN [isInApp |-> TRUE, platform |-> "ios", userAgent |-> ua,
            appName |-> "ios_safari_in_app"]
      ELSE IF isAndroidWebView(ua)
      THEN [isInApp |-> TRUE, platform |-> "android", userAgent |-> ua,
            appName |-> "android_webview"]
      ELSE [isInApp |-> FALSE, platform |-> getPlatform(ua), userAgent |-> ua,
            appName |-> "browser"]

\* variant: the two heuristics are evaluated before the signature table
analyze_HeuristicsFirst(ua, safariDefined, webkitDefined) ==
  LET i == FirstPattern(ToLower(ua), 1)
  IN  IF isIOSSafariInApp(ua, safariDefined, webkitDefined)
      THEN [isInApp |-> TRUE, platform |-> getPlatform(ua), userAgent |-> ua,
            appName |-> "ios_safari_in_app"]
      ELSE IF isAndroidWebView(ua)
      THEN [isInApp |-> TRUE, platform |-> getPlatform(ua), userAgent |-> ua,
            appName |-> "android_webview"]
      ELSE IF i # 0
      THEN [isInApp |-> TRUE, platform |-> getPlatform(ua), userAgent |-> ua,
            appName |-> IN_APP_PATTERNS[i].appName]
      ELSE [isInApp |-> FALSE, platform |-> getPlatform(ua), userAgent |-> ua,
            appName |-> undefined]

analyze(ua, safariDefined, webkitDefined) ==
  LET i == FirstPattern(ToLower(ua), 1)
  IN  IF i # 0
      THEN [isInApp |-> TRUE, platform |-> getPlatform(ua), userAgent |-> ua,
            appName |-> IN_APP_PATTERNS[i].appName]
      ELSE IF isIOSSafariInApp(ua, safariDefined, webkitDefined)
      THEN [isInApp |-> TRUE, platform |-> getPlatform(ua), userAgent |-> ua,
            appName |-> "ios_safari_in_app"]
      ELSE IF isAndroidWebView(ua)
      THEN [isInApp |-> TRUE, platform |-> getPlatform(ua), userAgent |-> ua,
            appName |-> "android_webview"]
      ELSE [isInApp |-> FALSE, platform |-> getPlatform(ua), userAgent |-> ua,
            appName |-> undefined]

NoSnapshot == [isInApp |-> FALSE, platform |-> "none", userAgent |-> <<>>, appName |-> undefined]

\* what a call gives that returns no snapshot because reading window.safari
\* raised a ReferenceError
ReferenceError ==
  [isInApp |-> FALSE, platform |-> "none", userAgent |-> <<>>, appName |-> "ReferenceError"]

\* analyze() where navigator is defined and window is not (a worker): the
\* expression typeof window.safari evaluates window first
analyzeWithoutWindow(ua) ==
  LET i == FirstPattern(ToLower(ua), 1)
  IN  IF i # 0
      THEN [isInApp |-> TRUE, platform |-> getPlatform(ua), userAgent |-> ua,
            appName |-> IN_APP_PATTERNS[i].appName]
      ELSE IF ReachesWindowProbe(ua)
      THEN ReferenceError
      ELSE IF isAndroidWebView(ua)
      THEN [isInApp |-> TRUE, platform |-> getPlatform(ua), userAgent |-> ua,
            appName |-> "android_webview"]
      ELSE [isInApp |-> FALSE, platform |-> getPlatform(ua), userAgent |-> ua,
            appName |-> undefined]

(***************************************************************************)
(* URLs and the two rewrites the platform strategies apply to them         *)
(* (getRedirectStrategies).                                                *)
(***************************************************************************)
StartsWith(s, p) == Len(s) >= Len(p) /\ MatchAt(s, 1, p)

Drop(s, n) == SubSeq(s, n + 1, Len(s))

\* url.replace(/^https?:\/\//, head)
ReplaceScheme(url, head) ==
  IF StartsWith(url, <<"h","t","t","p","s",":","/","/">>) THEN head \o Drop(url, 8)
  ELSE IF StartsWith(url, <<"h","t","t","p",":","/","/">>) THEN head \o Drop(url, 7)
  ELSE url

\* the characters encodeURIComponent leaves alone besides letters and digits
UnreservedMarks == {"-", "_", ".", "!", "~", "*", "'", "(", ")"}

\* the escapes of the other characters that occur in the URLs of the model
PercentCode ==
  [c \in {":", "/", "?", "=", "&", "#", " ", ";"} |->
     CASE c = ":" -> <<"%","3","A">>
       [] c = "/" -> <<"%","2","F">>
       [] c = "?" -> <<"%","3","F">>
       [] c = "=" -> <<"%","3","D">>
       [] c = "&" -> <<"%","2","6">>
       [] c = "#" -> <<"%","2","3">>
       [] c = " " -> <<"%","2","0">>
       [] c = ";" -> <<"%","3","B">>]

IsLetter(c) == IsUpper(c) \/ \E k \in 1..26 : LowerChars[k] = c

RECURSIVE encodeURIComponent(_)
encodeURIComponent(s) ==
  IF s = <<>> THEN <<>>
  ELSE (IF IsLetter(s[1]) \/ IsDigit(s[1]) \/ s[1] \in UnreservedMarks
        THEN <<s[1]>> ELSE PercentCode[s[1]]) \o encodeURIComponent(Tail(s))

iosSafariHttpsUrl(url) == ReplaceScheme(url, <<"x","-","s","a","f","a","r","i","-","h","t","t","p","s",":","/","/">>)

androidIntentUrl(url) ==
  <<"i","n","t","e","n","t",":","/","/">> \o ReplaceScheme(url, <<>>) \o
  <<"#","I","n","t","e","n","t",";","s","c","h","e","m","e","=","h","t","t","p","s",";","a","c","t","i","o","n","=","a","n","d","r","o","i","d",".","i","n","t","e","n","t",".","a","c","t","i","o","n",".","V","I","E","W",";","c","a","t","e","g","o","r","y","=","a","n","d","r","o","i","d",".","i","n","t","e","n","t",".","c","a","t","e","g","o","r","y",".","B","R","O","W","S","A","B","L","E",";","S",".","b","r","o","w","s","e","r","_","f","a","l","l","b","a","c","k","_","u","r","l","=">>
  \o encodeURIComponent(url) \o <<";","e","n","d">>

\* window.location.href of the page
DocumentUrl == <<"h","t","t","p","s",":","/","/","a",".","i","o","/","p","?","x","=","1">>

\* window.location.href after the application has changed its route
RouteUrl == <<"h","t","t","p","s",":","/","/","a",".","i","o","/","q">>

\* a fallbackUrl an application passes
OtherUrl == <<"h","t","t","p",":","/","/","b",".","i","o","/">>

(***************************************************************************)
(* EscapeOptions objects.  An option object is a record that has exactly   *)
(* the keys the caller wrote; a key that is left out is not in its DOMAIN. *)
(***************************************************************************)
MaxOptionKeys == 2

OptionKeys ==
  {"force", "showModal", "showQuickInstructions", "debug", "fallbackUrl", "autoRedirect",
   "message", "buttonText"}

\* the values callers pass for a key
OptionValues(k) ==
  CASE k = "force" -> {TRUE}
    [] k = "showModal" -> BOOLEAN
    [] k = "showQuickInstructions" -> {TRUE}
    [] k = "debug" -> BOOLEAN
    [] k = "fallbackUrl" -> {OtherUrl}
    [] k = "autoRedirect" -> {FALSE}
    [] k = "message" -> {"Please open this page in your browser"}
    [] k = "buttonText" -> {"Open"}

Put(o, k, v) == [x \in DOMAIN o \cup {k} |-> IF x = k THEN v ELSE o[x]]

RECURSIVE OptionsOver(_)
OptionsOver(ks) ==
  IF ks = {} THEN {<<>>}
  ELSE LET k == CHOOSE x \in ks : TRUE
       IN  {Put(o, k, v) : o \in OptionsOver(ks \ {k}), v \in OptionValues(k)}

\* the option objects with at most MaxOptionKeys keys
EscapeOptions ==
  UNION {OptionsOver(ks) : ks \in {x \in SUBSET OptionKeys : Cardinality(x) <= MaxOptionKeys}}

\* { ...defaults, ...options }
Merge(defaults, options) ==
  [k \in DOMAIN defaults \cup DOMAIN options |->
     IF k \in DOMAIN options THEN options[k] ELSE defaults[k]]

\* a boolean option that is present and true
Truthy(o, k) == k \in DOMAIN o /\ o[k] = TRUE

\* variant: the modal is the default, as in the first release
defaultOptions_ShowModal(flag) ==
  [message |-> "For the best experience, please open this in your browser",
   buttonText |-> "Open in Browser", showModal |-> TRUE, debug |-> flag]

\* defaultOptions, whose debug entry escape() rewrites
defaultOptions(flag) ==
  [message |-> "For the best experience, please open this in your browser",
   buttonText |-> "Open in Browser", showModal |-> FALSE, debug |-> flag]

(***************************************************************************)
(* The page the engine acts on.  A handler runs to completion, so its      *)
(* calls are composed on a record of the state they change and the result  *)
(* is stored at the end of the step.                                       *)
(*                                                                         *)
(* A navigation request is recorded and the document stays loaded, as      *)
(* under the test harness; a document that unloads stops early, and every  *)
(* behaviour of that kind is a prefix of one of these.                     *)
(***************************************************************************)
World ==
  [body |-> body, requests |-> requests, clipboard |-> clipboard, timers |-> timers,
   runs |-> runs, console |-> console, created |-> created]

Commit(w) ==
  /\ body' = w.body
  /\ requests' = w.requests
  /\ clipboard' = w.clipboard
  /\ timers' = w.timers
  /\ runs' = w.runs
  /\ console' = w.console
  /\ created' = w.created

Line(level, text, run, name) == [level |-> level, text |-> text, run |-> run, strategy |-> name]

\* variant: a redirect sequence keeps the setting it was started with: its
\* first line is written when the flag is on, its later lines when its first
\* line was written
debugLog_StartSetting(w, flag, text, run, name) ==
  IF text = "Starting enhanced redirect for:"
  THEN IF flag THEN [w EXCEPT !.console = Append(@, Line("log", text, run, name))] ELSE w
  ELSE IF \E k \in 1..Len(w.console) : w.console[k].run = run
  THEN [w EXCEPT !.console = Append(@, Line("log", text, run, name))]
  ELSE w

debugLog(w, flag, text, run, name) ==
  IF flag THEN [w EXCEPT !.console = Append(@, Line("log", text, run, name))] ELSE w

\* variant: warnings are written whatever the flag is
debugWarn_Unconditional(w, flag, text, run, name) ==
  [w EXCEPT !.console = Append(@, Line("warn", text, run, name))]

debugWarn(w, flag, text, run, name) ==
  IF flag THEN [w EXCEPT !.console = Append(@, Line("warn", text, run, name))] ELSE w

Element(id, tag, url, browserInfo, message, buttonText) ==
  [id |-> id, tag |-> tag, url |-> url, browserInfo |-> browserInfo, message |-> message,
   buttonText |-> buttonText]

\* document.createElement followed by document.body.appendChild
appendChild(w, tag, url, browserInfo, message, buttonText) ==
  [w EXCEPT !.created = @ + 1,
            !.body = @ \cup {Element(w.created + 1, tag, url, browserInfo, message, buttonText)}]

\* setTimeout(callback, delay)
Timer(kind, delay, run, index, node, url) ==
  [kind |-> kind, delay |-> delay, run |-> run, index |-> index, node |-> node, url |-> url]

setTimeout(w, t) == [w EXCEPT !.timers = Append(@, t)]

Request(api, target, url, run, result) ==
  [api |-> api, target |-> target, url |-> url, run |-> run, result |-> result]

issue(w, q) == [w EXCEPT !.requests = Append(@, q)]

universalStrategies ==
  <<"windowOpenBlank", "windowOpenTop", "anchorClick", "formSubmit", "locationAssignDelayed",
    "locationHref">>

\* variant: the platform-specific strategy is added after the universal ones
getRedirectStrategies_PlatformLast(url, browserInfo) ==
  universalStrategies \o
  (IF browserInfo.platform = "ios" THEN <<"iosSafariHttps">>
   ELSE IF browserInfo.platform = "android" THEN <<"androidIntent">>
   ELSE <<>>)

\* variant: no platform has a strategy of its own
getRedirectStrategies_UniversalOnly(url, browserInfo) == universalStrategies

\* the names of the strategies, which close over the URL
getRedirectStrategies(url, browserInfo) ==
  (IF browserInfo.platform = "ios" THEN <<"iosSafariHttps">>
   ELSE IF browserInfo.platform = "android" THEN <<"androidIntent">>
   ELSE <<>>) \o universalStrategies

\* what the browser answers to the call a strategy makes
Responses(name) ==
  CASE name = "windowOpenBlank" -> {"window", "closed", "null", "throw"}
    [] name \in {"windowOpenTop", "locationAssignDelayed"} -> {"window", "null", "throw"}
    [] OTHER -> {"ok", "throw"}

\* a browser call that fails: it throws, or it opens or copies nothing
Fault(resp) == IF resp \in {"ok", "window", "pending"} THEN 0 ELSE 1

Outcome(w, signal) == [w |-> w, signal |-> signal]

\* variant: the delayed assignment is cancelled whether the blank context
\* opened or not
locationAssignDelayed_AlwaysCancels(w, url, r, resp) ==
  LET w1 == issue(w, Request("window.open", "_blank", <<>>, r, resp))
  IN  IF resp = "window"
      THEN Outcome(issue(w1, Request("opened.location.href", "_blank", url, r, "ok")), "true")
      ELSE Outcome(w1, IF resp = "throw" THEN "throw" ELSE "false")

\* the strategy that sets a timer for window.location.assign(url), opens a
\* blank context and, when it has one, clears the timer and navigates it
locationAssignDelayed(w, url, r, resp) ==
  LET w1 == issue(w, Request("window.open", "_blank", <<>>, r, resp))
      delayed == Timer("locationAssign", 100, r, 0, 0, url)
  IN  IF resp = "window"
      THEN Outcome(issue(w1, Request("opened.location.href", "_blank", url, r, "ok")), "true")
      ELSE Outcome([w1 EXCEPT !.timers = Append(w.timers, delayed)],
                   IF resp = "throw" THEN "throw" ELSE "false")

\* strategy(): the calls of one strategy and the signal it gives the executor
Invoke(w, name, url, r, resp) ==
  CASE name = "iosSafariHttps" ->
         Outcome(issue(w, Request("location.href", "_self", iosSafariHttpsUrl(url), r, resp)),
                 IF resp = "throw" THEN "throw" ELSE "true")
    [] name = "androidIntent" ->
         Outcome(issue(w, Request("location.href", "_self", androidIntentUrl(url), r, resp)),
                 IF resp = "throw" THEN "throw" ELSE "true")
    [] name = "windowOpenBlank" ->
         Outcome(issue(w, Request("window.open", "_blank", url, r, resp)),
                 IF resp = "throw" THEN "throw" ELSE IF resp = "window" THEN "true" ELSE "false")
    [] name = "windowOpenTop" ->
         Outcome(issue(w, Request("window.open", "_top", url, r, resp)),
                 IF resp = "throw" THEN "throw" ELSE IF resp = "window" THEN "true" ELSE "false")
    [] name = "anchorClick" ->
         IF resp = "throw" THEN Outcome(w, "throw")
         ELSE LET w1 == appendChild(w, "a", url, NoSnapshot, "", "")
                  w2 == issue(w1, Request("anchor.click", "_blank", url, r, resp))
              IN  Outcome(setTimeout(w2, Timer("removeChild", 100, r, 0, w1.created, <<>>)), "true")
    [] name = "formSubmit" ->
         IF resp = "throw" THEN Outcome(w, "throw")
         ELSE LET w1 == appendChild(w, "form", url, NoSnapshot, "", "")
                  w2 == issue(w1, Request("form.submit", "_blank", url, r, resp))
              IN  Outcome(setTimeout(w2, Timer("removeChild", 100, r, 0, w1.created, <<>>)), "true")
    [] name = "locationAssignDelayed" -> locationAssignDelayed(w, url, r, resp)
    [] name = "locationHref" ->
         Outcome(issue(w, Request("location.href", "_self", url, r, resp)),
                 IF resp = "throw" THEN "throw" ELSE "true")

\* variant: the executor does not catch what a strategy throws, so a throwing
\* strategy is the last attempt of its run
executeStrategiesSequentially_NoCatch(w, flag, r, index, resp) ==
  LET run == w.runs[r]
  IN  IF index >= Len(run.strategies)
      THEN LET w1 == debugWarn(w, flag, "All strategies failed, using final fallback", r, "")
               w2 == issue(w1, Request("location.href", "_self", run.url, r, resp))
           IN  [w2 EXCEPT !.runs[r].state = "fallback"]
      ELSE LET name == run.strategies[index + 1]
               w1 == debugLog(w, flag, "Trying strategy", r, name)
               w2 == [w1 EXCEPT !.runs[r].invoked = Append(@, index)]
               res == Invoke(w2, name, run.url, r, resp)
           IN  IF res.signal = "true"
               THEN [debugLog(res.w, flag, "Redirect successful with strategy:", r, name)
                       EXCEPT !.runs[r].state = "succeeded"]
               ELSE IF res.signal = "throw"
               THEN res.w
               ELSE setTimeout(res.w, Timer("nextStrategy", 100, r, index + 1, 0, <<>>))

\* variant: after a failed attempt the timer is set for the strategy after the
\* next one
executeStrategiesSequentially_SkipsOne(w, flag, r, index, resp) ==
  LET run == w.runs[r]
  IN  IF index >= Len(run.strategies)
      THEN LET w1 == debugWarn(w, flag, "All strategies failed, using final fallback", r, "")
               w2 == issue(w1, Request("location.href", "_self", run.url, r, resp))
           IN  [w2 EXCEPT !.runs[r].state = "fallback"]
      ELSE LET name == run.strategies[index + 1]
               w1 == debugLog(w, flag, "Trying strategy", r, name)
               w2 == [w1 EXCEPT !.runs[r].invoked = Append(@, index)]
               res == Invoke(w2, name, run.url, r, resp)
           IN  IF res.signal = "true"
               THEN [debugLog(res.w, flag, "Redirect successful with strategy:", r, name)
                       EXCEPT !.runs[r].state = "succeeded"]
               ELSE LET w3 == IF res.signal = "throw"
                              THEN debugWarn(res.w, flag, "Strategy failed:", r, name)
                              ELSE res.w
                    IN  setTimeout(w3, Timer("nextStrategy", 100, r, index + 2, 0, <<>>))

\* variant: after a failed attempt the executor calls itself for the next
\* index at once, without a timer
RECURSIVE executeStrategiesSequentially_SameTurn(_, _, _, _, _)
executeStrategiesSequentially_SameTurn(w, flag, r, index, resp) ==
  LET run == w.runs[r]
  IN  IF index >= Len(run.strategies)
      THEN LET w1 == debugWarn(w, flag, "All strategies failed, using final fallback", r, "")
               w2 == issue(w1, Request("location.href", "_self", run.url, r, "ok"))
           IN  [w2 EXCEPT !.runs[r].state = "fallback"]
      ELSE LET name == run.strategies[index + 1]
               w1 == debugLog(w, flag, "Trying strategy", r, name)
               w2 == [w1 EXCEPT !.runs[r].invoked = Append(@, index)]
               res == Invoke(w2, name, run.url, r, IF resp \in Responses(name) THEN resp ELSE "ok")
           IN  IF res.signal = "true"
               THEN [debugLog(res.w, flag, "Redirect successful with strategy:", r, name)
                       EXCEPT !.runs[r].state = "succeeded"]
               ELSE LET w3 == IF res.signal = "throw"
                              THEN debugWarn(res.w, flag, "Strategy failed:", r, name)
                              ELSE res.w
                    IN  executeStrategiesSequentially_SameTurn(w3, flag, r, index + 1, "ok")

\* index counts from 0 as in the source
executeStrategiesSequentially(w, flag, r, index, resp) ==
  LET run == w.runs[r]
  IN  IF index >= Len(run.strategies)
      THEN LET w1 == debugWarn(w, flag, "All strategies failed, using final fallback", r, "")
               w2 == issue(w1, Request("location.href", "_self", run.url, r, resp))
           IN  [w2 EXCEPT !.runs[r].state = "fallback"]
      ELSE LET name == run.strategies[index + 1]
               w1 == debugLog(w, flag, "Trying strategy", r, name)
               w2 == [w1 EXCEPT !.runs[r].invoked = Append(@, index)]
               res == Invoke(w2, name, run.url, r, resp)
           IN  IF res.signal = "true"
               THEN [debugLog(res.w, flag, "Redirect successful with strategy:", r, name)
                       EXCEPT !.runs[r].state = "succeeded"]
               ELSE LET w3 == IF res.signal = "throw"
                              THEN debugWarn(res.w, flag, "Strategy failed:", r, name)
                              ELSE res.w
                    IN  setTimeout(w3, Timer("nextStrategy", 100, r, index + 1, 0, <<>>))

performRedirect(w, flag, url, browserInfo, origin, resp) ==
  LET r == Len(w.runs) + 1
      w1 == debugLog(w, flag, "Starting enhanced redirect for:", r, "")
      w2 == debugLog(w1, flag, "Browser info:", r, "")
      strategies == getRedirectStrategies(url, browserInfo)
      w3 == debugLog(w2, flag, "Found strategies to try", r, "")
      w4 == [w3 EXCEPT !.runs = Append(@, [url |-> url, browserInfo |-> browserInfo,
                                           strategies |-> strategies, invoked |-> <<>>,
                                           state |-> "running", origin |-> origin])]
  IN  executeStrategiesSequentially(w4, flag, r, 0, resp)

\* the call record of a page on which escape() has not been called
NoCall == [n |-> 0, options |-> <<>>, browserInfo |-> NoSnapshot, url |-> <<>>, ret |-> FALSE]

(***************************************************************************)
(* The classifier alone: a page whose user agent is any of UserAgents      *)
(* calls analyze().                                                        *)
(***************************************************************************)
InitDetect ==
  /\ uaInput \in UserAgents
  /\ userAgent = Render(uaInput)
  /\ windowSafari \in BOOLEAN
  /\ windowWebkit \in BOOLEAN
  /\ snapshot = NoSnapshot
  /\ returned = <<>>
  /\ locationHref = DocumentUrl
  /\ debug = FALSE
  /\ body = {}
  /\ requests = <<>>
  /\ clipboard = <<>>
  /\ timers = <<>>
  /\ runs = <<>>
  /\ console = <<>>
  /\ created = 0
  /\ call = NoCall
  /\ budget = [calls |-> 0, faults |-> 0]

MaxReturned == 2

\* a call of a method of the detector by the application, the environment it
\* was made in and the value it returned
Returned(method, value) ==
  [method |-> method, userAgent |-> userAgent, safari |-> windowSafari,
   webkit |-> windowWebkit, value |-> value]

\* variant: analyze() keeps its first snapshot and returns it from then on
Analyze_Memoized ==
  /\ Len(returned) < MaxReturned
  /\ snapshot' = IF snapshot # NoSnapshot THEN snapshot
                 ELSE analyze(userAgent, windowSafari, windowWebkit)
  /\ returned' = Append(returned, Returned("analyze", snapshot'))
  /\ UNCHANGED <<userAgent, uaInput, windowSafari, windowWebkit, locationHref, debug, body,
                 requests, clipboard, timers, runs, console, created, call, budget>>

\* analyze() reads the user agent and the two properties of window and writes
\* nothing
Analyze ==
  /\ Len(returned) < MaxReturned
  /\ snapshot' = analyze(userAgent, windowSafari, windowWebkit)
  /\ returned' = Append(returned, Returned("analyze", snapshot'))
  /\ UNCHANGED <<userAgent, uaInput, windowSafari, windowWebkit, locationHref, debug, body,
                 requests, clipboard, timers, runs, console, created, call, budget>>

\* isInAppBrowser(): the verdict of a new analyze() call
IsInAppBrowser ==
  /\ Len(returned) < MaxReturned
  /\ returned' = Append(returned,
                   Returned("isInAppBrowser",
                            analyze(userAgent, windowSafari, windowWebkit).isInApp))
  /\ UNCHANGED <<userAgent, uaInput, windowSafari, windowWebkit, snapshot, locationHref, debug,
                 body, requests, clipboard, timers, runs, console, created, call, budget>>

\* getAppName(): the appName of a new analyze() call
GetAppName ==
  /\ Len(returned) < MaxReturned
  /\ returned' = Append(returned,
                   Returned("getAppName",
                            analyze(userAgent, windowSafari, windowWebkit).appName))
  /\ UNCHANGED <<userAgent, uaInput, windowSafari, windowWebkit, snapshot, locationHref, debug,
                 body, requests, clipboard, timers, runs, console, created, call, budget>>

NextDetect == Analyze

SpecDetect == InitDetect /\ [][NextDetect]_vars

\* what the legacy copy command answers
CopyCommandResponses == {"true", "false", "throw"}

\* the modern clipboard call either returns a promise that settles later or is
\* not there, and then the legacy path runs at once; an entry of the clipboard
\* log keeps the number of requests that were made before it
ClipboardResponses == {"pending"} \cup CopyCommandResponses

\* document.body.removeChild(node)
removeChild(w, id) == [w EXCEPT !.body = {e \in @ : e.id # id}]

\* variant: the catch block has no inner try, so an exception of the copy
\* command leaves the text field in the document and rejects the promise
legacyCopy_NoInnerCatch(w, i, modern, resp) ==
  LET w1 == appendChild(w, "textarea", w.clipboard[i].url, NoSnapshot, "", "")
      w2 == [w1 EXCEPT !.clipboard[i].modern = modern,
                       !.clipboard[i].legacy = resp,
                       !.clipboard[i].field = w1.created]
  IN  IF resp = "throw"
      THEN [w2 EXCEPT !.clipboard[i].result = "rejected"]
      ELSE [removeChild(w2, w1.created) EXCEPT !.clipboard[i].result = resp]

\* the catch block of copyUrlToClipboard: the text field is appended, selected
\* and, after the copy command has returned or thrown, removed within one turn
legacyCopy(w, i, modern, resp) ==
  LET w1 == appendChild(w, "textarea", w.clipboard[i].url, NoSnapshot, "", "")
      w2 == [w1 EXCEPT !.clipboard[i].modern = modern,
                       !.clipboard[i].legacy = resp,
                       !.clipboard[i].field = w1.created]
  IN  IF resp = "throw"
      THEN [removeChild(w2, w1.created) EXCEPT !.clipboard[i].result = "false"]
      ELSE [removeChild(w2, w1.created) EXCEPT !.clipboard[i].result = resp]

copyUrlToClipboard(w, url, resp) ==
  LET urlToCopy == IF url # <<>> THEN url ELSE locationHref
      i == Len(w.clipboard) + 1
      w1 == [w EXCEPT !.clipboard = Append(@, [arg |-> url, url |-> urlToCopy,
                                               modern |-> "pending",
                                               legacy |-> "none", field |-> 0,
                                               result |-> "pending",
                                               after |-> Len(w.requests)])]
  IN  IF resp = "pending" THEN w1 ELSE legacyCopy(w1, i, "unavailable", resp)

QuickInstructions(browserInfo) ==
  IF browserInfo.platform = "ios"
  THEN "Tap the Share button at the bottom, then select \"Open in Safari\""
  ELSE "Tap the menu and select \"Open in browser\""

showQuickInstructions(w, url, browserInfo) ==
  LET w1 == appendChild(w, "overlay", <<>>, browserInfo, QuickInstructions(browserInfo), "Got it")
  IN  setTimeout(w1, Timer("removeOverlay", 10000, 0, 0, w1.created, <<>>))

\* variant: the modal is shown and the redirect starts without a click
showEscapeModal_AutoRedirects(w, url, options, browserInfo) ==
  performRedirect(appendChild(w, "modal", url, browserInfo, options.message, options.buttonText),
                  FALSE, url, browserInfo, [kind |-> "escape", id |-> 0], "ok")

\* createModal and showEscapeModal: the listeners of the node keep url and
\* browserInfo
showEscapeModal(w, url, options, browserInfo) ==
  appendChild(w, "modal", url, browserInfo, options.message, options.buttonText)

\* variant: closing one modal removes every modal of the document
closeModal_RemovesEveryModal(w, modal) == [w EXCEPT !.body = {e \in @ : e.tag # "modal"}]

closeModal(w, modal) == [w EXCEPT !.body = @ \ {modal}]

(***************************************************************************)
(* The page: one environment, one document, and the calls, clicks, timers  *)
(* and promise settlements that happen on it.                              *)
(***************************************************************************)
MaxCalls == 2

MaxFaults == 8

\* a page is followed either through MaxCalls calls of escape() on which at most
\* one browser call fails, or through one call on which up to MaxFaults fail
Budgets == {[calls |-> MaxCalls, faults |-> 1], [calls |-> 1, faults |-> MaxFaults]}

\* the remaining budget pays for the failures among the answers
Pays(faults) == faults <= budget.faults

Spend(calls, faults) ==
  budget' = [calls |-> budget.calls - calls, faults |-> budget.faults - faults]

\* the browsers the page is opened in: a desktop browser, the Instagram app on
\* an iPhone, and an Android WebView
Pages ==
  { [ua |-> [device |-> "windows", model |-> "-", version |-> FALSE, vendor |-> "none",
             chrome |-> 91, mobile |-> FALSE, safari |-> "537.36", markers |-> {},
             casing |-> "as is"],
     safari |-> FALSE, webkit |-> FALSE],
    [ua |-> [device |-> "iphone", model |-> "-", version |-> FALSE, vendor |-> "none",
             chrome |-> 0, mobile |-> TRUE, safari |-> "604.1", markers |-> {"Instagram"},
             casing |-> "as is"],
     safari |-> FALSE, webkit |-> TRUE],
    [ua |-> [device |-> "android", model |-> "K", version |-> FALSE, vendor |-> "none",
             chrome |-> 130, mobile |-> TRUE, safari |-> "537.36", markers |-> {},
             casing |-> "as is"],
     safari |-> FALSE, webkit |-> FALSE] }

Init ==
  /\ \E p \in Pages :
       /\ uaInput = p.ua
       /\ userAgent = Render(p.ua)
       /\ windowSafari = p.safari
       /\ windowWebkit = p.webkit
  /\ snapshot = NoSnapshot
  /\ returned = <<>>
  /\ locationHref = DocumentUrl
  /\ debug = FALSE
  /\ body = {}
  /\ requests = <<>>
  /\ clipboard = <<>>
  /\ timers = <<>>
  /\ runs = <<>>
  /\ console = <<>>
  /\ created = 0
  /\ call = NoCall
  /\ budget \in Budgets

environment ==
  <<userAgent, uaInput, windowSafari, windowWebkit, snapshot, returned, locationHref>>

page == <<body, requests, clipboard, timers, runs, console, created>>

\* variant: no early return for a page that is not in-app
Branch_AlwaysProceeds(browserInfo, options, config) ==
  IF Truthy(config, "force") THEN "force"
  ELSE IF Truthy(config, "showModal") THEN "modal"
  ELSE "redirect"

\* variant: showModal is looked at before force
Branch_ModalBeforeForce(browserInfo, options, config) ==
  IF ~browserInfo.isInApp /\ ~Truthy(options, "force") THEN "return false"
  ELSE IF Truthy(config, "showModal") THEN "modal"
  ELSE IF Truthy(config, "force") THEN "force"
  ELSE "redirect"

\* the branch escape() takes
Branch(browserInfo, options, config) ==
  IF ~browserInfo.isInApp /\ ~Truthy(options, "force") THEN "return false"
  ELSE IF Truthy(config, "force") THEN "force"
  ELSE IF Truthy(config, "showModal") THEN "modal"
  ELSE "redirect"

\* escape(options)
Escape ==
  /\ budget.calls > 0
  /\ \E browserInfo \in {analyze(userAgent, windowSafari, windowWebkit)},
        options \in EscapeOptions :
           LET config == Merge(defaultOptions(debug), options)
               flag == Truthy(config, "debug")
               branch == Branch(browserInfo, options, config)
               currentUrl == IF "fallbackUrl" \in DOMAIN config /\ config.fallbackUrl # <<>>
                             THEN config.fallbackUrl ELSE locationHref
               first == getRedirectStrategies(currentUrl, browserInfo)[1]
               origin == [kind |-> "escape", id |-> call.n + 1]
               Return(value) ==
                 call' = [n |-> call.n + 1, options |-> options, browserInfo |-> browserInfo,
                          url |-> currentUrl, ret |-> value]
           IN  /\ debug' = flag
               /\ IF branch = "return false"
                  THEN /\ UNCHANGED page
                       /\ Spend(1, 0)
                       /\ Return(FALSE)
                  ELSE IF branch = "force"
                  THEN \E resp \in Responses(first), copied \in ClipboardResponses :
                         LET w1 == performRedirect(World, flag, currentUrl, browserInfo, origin, resp)
                             w2 == copyUrlToClipboard(w1, currentUrl, copied)
                             w3 == IF Truthy(config, "showQuickInstructions")
                                   THEN showQuickInstructions(w2, currentUrl, browserInfo)
                                   ELSE w2
                         IN  /\ Pays(Fault(resp) + Fault(copied))
                             /\ Spend(1, Fault(resp) + Fault(copied))
                             /\ Commit(w3)
                             /\ Return(TRUE)
                  ELSE IF branch = "modal"
                  THEN /\ Commit(showEscapeModal(World, currentUrl, config, browserInfo))
                       /\ Spend(1, 0)
                       /\ Return(TRUE)
                  ELSE \E resp \in Responses(first) :
                         LET w1 == performRedirect(World, flag, currentUrl, browserInfo, origin, resp)
                             w2 == IF Truthy(config, "showQuickInstructions")
                                   THEN showQuickInstructions(w1, currentUrl, browserInfo)
                                   ELSE w1
                         IN  /\ Pays(Fault(resp))
                             /\ Spend(1, Fault(resp))
                             /\ Commit(w2)
                             /\ Return(TRUE)
  /\ UNCHANGED environment

\* the promise of the modern clipboard call settles
SettleClipboard ==
  /\ \E i \in 1..Len(clipboard) :
       /\ clipboard[i].modern = "pending"
       /\ \/ /\ clipboard' = [clipboard EXCEPT ![i].modern = "resolved", ![i].result = "true"]
             /\ UNCHANGED <<created, body, budget>>
          \/ \E resp \in CopyCommandResponses :
               LET w == legacyCopy(World, i, "rejected", resp)
               IN  /\ Pays(1)
                   /\ Spend(0, 1)
                   /\ clipboard' = w.clipboard
                   /\ created' = w.created
                   /\ body' = w.body
  /\ UNCHANGED <<environment, debug, call, requests, timers, runs, console>>

Modals == {e \in body : e.tag = "modal"}

\* a click on the action button of a modal
ClickOpen ==
  /\ \E modal \in Modals :
       \E resp \in Responses(getRedirectStrategies(modal.url, modal.browserInfo)[1]),
          copied \in ClipboardResponses :
         LET origin == [kind |-> "click", id |-> modal.id]
             w1 == performRedirect(World, debug, modal.url, modal.browserInfo, origin, resp)
             w2 == copyUrlToClipboard(w1, modal.url, copied)
         IN  /\ Pays(Fault(resp) + Fault(copied))
             /\ Spend(0, Fault(resp) + Fault(copied))
             /\ Commit(closeModal(w2, modal))
  /\ UNCHANGED <<environment, debug, call>>

\* a click on the close button of a modal
ClickClose ==
  /\ \E modal \in Modals : Commit(closeModal(World, modal))
  /\ UNCHANGED <<environment, debug, call, budget>>

\* a click on the backdrop of a modal
ClickBackdrop ==
  /\ \E modal \in Modals : Commit(closeModal(World, modal))
  /\ UNCHANGED <<environment, debug, call, budget>>

\* a click on the button of the quick-instructions overlay
ClickGotIt ==
  /\ \E overlay \in {e \in body : e.tag = "overlay"} : body' = body \ {overlay}
  /\ UNCHANGED <<environment, debug, call, budget, requests, clipboard, timers, runs, console,
                 created>>

\* the application changes its route while a modal waits for its click:
\* window.location.href is another URL from now on
PushState ==
  /\ Modals # {}
  /\ locationHref = DocumentUrl
  /\ locationHref' = RouteUrl
  /\ UNCHANGED <<userAgent, uaInput, windowSafari, windowWebkit, snapshot, returned, debug, call,
                 budget,
                 page>>

\* variant: the timers fire in any order
Due_AnyOrder(i) == TRUE

\* timers of equal delay fire in the order they were set, and a timer does not
\* fire before a shorter one that was set earlier
Due(i) == \A j \in 1..(i - 1) : timers[j].delay > timers[i].delay

Without(s, i) == SubSeq(s, 1, i - 1) \o SubSeq(s, i + 1, Len(s))

\* a timer callback runs
FireTimer ==
  /\ \E i \in 1..Len(timers) :
       /\ Due(i)
       /\ LET t == timers[i]
              w == [World EXCEPT !.timers = Without(timers, i)]
          IN  CASE t.kind = "nextStrategy" ->
                     \E resp \in Responses(IF t.index >= Len(runs[t.run].strategies)
                                           THEN "locationHref"
                                           ELSE runs[t.run].strategies[t.index + 1]) :
                       /\ Pays(Fault(resp))
                       /\ Spend(0, Fault(resp))
                       /\ Commit(executeStrategiesSequentially(w, debug, t.run, t.index, resp))
                [] t.kind = "removeChild" ->
                     /\ Commit([w EXCEPT !.body = {e \in @ : e.id # t.node}])
                     /\ UNCHANGED budget
                [] t.kind = "locationAssign" ->
                     \E resp \in {"ok", "throw"} :
                       /\ Pays(Fault(resp))
                       /\ Spend(0, Fault(resp))
                       /\ Commit(issue(w, Request("location.assign", "_self", t.url, t.run, resp)))
                [] t.kind = "removeOverlay" ->
                     /\ Commit([w EXCEPT !.body = {e \in @ : e.id # t.node}])
                     /\ UNCHANGED budget
  /\ UNCHANGED <<environment, debug, call>>

Next ==
  \/ Escape
  \/ SettleClipboard
  \/ ClickOpen
  \/ ClickClose
  \/ ClickBackdrop
  \/ ClickGotIt
  \/ PushState
  \/ FireTimer

Spec == Init /\ [][Next]_vars

MaxCopies == 3

\* copyUrlToClipboard(url?) called by the application, with a URL or without
CopyUrlToClipboard ==
  /\ Len(clipboard) < MaxCopies
  /\ \E url \in {<<>>, OtherUrl}, resp \in ClipboardResponses :
       /\ Pays(Fault(resp))
       /\ Spend(0, Fault(resp))
       /\ Commit(copyUrlToClipboard(World, url, resp))
  /\ UNCHANGED <<environment, debug, call>>

NextCopy ==
  \/ CopyUrlToClipboard
  \/ SettleClipboard

\* a page on which the application only copies URLs
SpecCopy == Init /\ [][NextCopy]_vars

\* an iPhone page in Safari and the same page in an embedded Safari view
SafariPages ==
  { [ua |-> [device |-> "iphone", model |-> "-", version |-> TRUE, vendor |-> "none",
             chrome |-> 0, mobile |-> TRUE, safari |-> "604.1", markers |-> {},
             casing |-> "as is"],
     safari |-> sf, webkit |-> TRUE] : sf \in BOOLEAN }

InitRepeat ==
  /\ \E p \in Pages \cup SafariPages :
       /\ uaInput = p.ua
       /\ userAgent = Render(p.ua)
       /\ windowSafari = p.safari
       /\ windowWebkit = p.webkit
  /\ snapshot = NoSnapshot
  /\ returned = <<>>
  /\ locationHref = DocumentUrl
  /\ debug = FALSE
  /\ call = NoCall
  /\ budget = [calls |-> 0, faults |-> 0]
  /\ body = {}
  /\ requests = <<>>
  /\ clipboard = <<>>
  /\ timers = <<>>
  /\ runs = <<>>
  /\ console = <<>>
  /\ created = 0

\* navigator.userAgent and the two properties of window are redefined
SetUserAgent ==
  /\ \E p \in Pages \cup SafariPages :
       /\ <<p.ua, p.safari, p.webkit>> # <<uaInput, windowSafari, windowWebkit>>
       /\ uaInput' = p.ua
       /\ userAgent' = Render(p.ua)
       /\ windowSafari' = p.safari
       /\ windowWebkit' = p.webkit
  /\ UNCHANGED <<snapshot, returned, locationHref, debug, call, budget, page>>

NextRepeat ==
  \/ Analyze
  \/ IsInAppBrowser
  \/ GetAppName
  \/ SetUserAgent

\* the application calls the detector on a page whose environment changes
SpecRepeat == InitRepeat /\ [][NextRepeat]_vars

\* a context with navigator and without window
InitWorker == InitDetect /\ ~windowSafari /\ ~windowWebkit

\* analyze() called in that context
AnalyzeInWorker ==
  /\ Len(returned) < MaxReturned
  /\ \E result \in {analyzeWithoutWindow(userAgent)} :
       /\ snapshot' = IF result = ReferenceError THEN snapshot ELSE result
       /\ returned' = Append(returned, Returned("analyze", result))
  /\ UNCHANGED <<userAgent, uaInput, windowSafari, windowWebkit, locationHref, debug, body,
                 requests, clipboard, timers, runs, console, created, call, budget>>

NextWorker == AnalyzeInWorker

SpecWorker == InitWorker /\ [][NextWorker]_vars

\* one escape() call on which up to MaxFaults browser calls fail
InitLive == Init /\ budget.calls = 1

\* a timer that has been set fires: setTimeout callbacks are run by the event
\* loop of the page
SpecLive == InitLive /\ [][Next]_vars /\ WF_vars(FireTimer)

(***************************************************************************)
(* Properties of the classifier, stated over uaInput, the parts the        *)
(* user agent was assembled from, and over literal user agents of the test *)
(* suite; snapshot is what the code computed from the characters.          *)
(***************************************************************************)
Analyzed == snapshot # NoSnapshot

\* the app a marker belongs to ("none": the crawler marker)
MarkerApp(m) ==
  CASE m \in {"Instagram", "InstagramProduct"} -> "instagram"
    [] m \in {"FBAN", "FBAV", "FB_IAB"} -> "facebook"
    [] m \in {"TwitterAndroid", "TwitterForIPhone"} -> "twitter"
    [] m = "WhatsApp" -> "whatsapp"
    [] m = "Snapchat" -> "snapchat"
    [] m \in {"musical_ly", "TikTok"} -> "tiktok"
    [] m = "LinkedInApp" -> "linkedin"
    [] m = "MicroMessenger" -> "wechat"
    [] m = "Line" -> "line"
    [] m = "KAKAOTALK" -> "kakaotalk"
    [] m \in {"wv", "CCT", "CustomTabsIntent"} -> "chrome_custom_tabs"
    [] OTHER -> "none"

SignatureOrder ==
  <<"instagram", "facebook", "twitter", "whatsapp", "snapchat", "tiktok", "linkedin",
    "wechat", "line", "kakaotalk", "chrome_custom_tabs">>

MatchedApps == {MarkerApp(m) : m \in uaInput.markers} \ {"none"}

FirstMatchedApp ==
  SignatureOrder[CHOOSE k \in 1..Len(SignatureOrder) :
                   /\ SignatureOrder[k] \in MatchedApps
                   /\ \A j \in 1..(k - 1) : SignatureOrder[j] \notin MatchedApps]

\* C1 as stated: a user agent that carries a marker of an app is classified as
\* that app, whatever other markers it carries (FBAN always gives facebook).
C1_EverySignatureDecides ==
  Analyzed => \A a \in MatchedApps : snapshot.isInApp /\ snapshot.appName = a

\* C1, amended: a user agent that carries app markers is in-app and is classified
\* as the first app, in the order of the signature table, whose marker it carries;
\* FBAN gives facebook unless an instagram marker is present, and "; wv)" gives
\* chrome_custom_tabs when no app marker is present.
C1_FirstSignatureDecides ==
  /\ Analyzed /\ MatchedApps # {} =>
       snapshot.isInApp /\ snapshot.appName = FirstMatchedApp
  /\ Analyzed /\ "FBAN" \in uaInput.markers /\ "instagram" \notin MatchedApps =>
       snapshot.appName = "facebook"
  /\ Analyzed /\ "wv" \in uaInput.markers /\ MatchedApps = {"chrome_custom_tabs"} =>
       snapshot.appName = "chrome_custom_tabs"

C1_Witness ==
  /\ Analyzed
  /\ uaInput.device = "android"
  /\ uaInput.markers = {"FBAN", "Line"}
  /\ snapshot.isInApp
  /\ snapshot.appName = "facebook"

UA_TelegramBotAlone ==
  <<"T","e","l","e","g","r","a","m","B","o","t"," ","(","l","i","k","e"," ","T","w","i","t","t","e","r","B","o","t",")">>

UA_AndroidChromeTelegramBot ==
  <<"M","o","z","i","l","l","a","/","5",".","0"," ","(","L","i","n","u","x",";"," ","A","n","d","r","o","i","d"," ","1","0",";"," ","S","M","-","G","9","7","5","F",")"," ","A","p","p","l","e","W","e","b","K","i","t","/","5","3","7",".","3","6"," ","(","K","H","T","M","L",","," ","l","i","k","e"," ","G","e","c","k","o",")"," ","C","h","r","o","m","e","/","9","1",".","0",".","4","4","7","2",".","1","6","4"," ","M","o","b","i","l","e"," ","S","a","f","a","r","i","/","5","3","7",".","3","6"," ","T","e","l","e","g","r","a","m","B","o","t"," ","(","l","i","k","e"," ","T","w","i","t","t","e","r","B","o","t",")">>

\* C2: the crawler user agent "TelegramBot (like TwitterBot)", alone or appended
\* to an Android Chrome user agent, is not in-app and has no appName.
C2_CrawlerNotInApp ==
  Analyzed /\ userAgent \in {UA_TelegramBotAlone, UA_AndroidChromeTelegramBot} =>
    ~snapshot.isInApp /\ snapshot.appName = undefined

C2_Witness ==
  /\ Analyzed
  /\ userAgent = UA_AndroidChromeTelegramBot
  /\ snapshot.platform = "android"
  /\ ~snapshot.isInApp

UA_AndroidWebViewK ==
  <<"M","o","z","i","l","l","a","/","5",".","0"," ","(","L","i","n","u","x",";"," ","A","n","d","r","o","i","d"," ","1","0",";"," ","K",")"," ","A","p","p","l","e","W","e","b","K","i","t","/","5","3","7",".","3","6"," ","(","K","H","T","M","L",","," ","l","i","k","e"," ","G","e","c","k","o",")"," ","C","h","r","o","m","e","/","1","3","0",".","0",".","6","7","2","3",".","5","8"," ","M","o","b","i","l","e"," ","S","a","f","a","r","i","/","5","3","7",".","3","6">>

UA_AndroidChromeRealDevice ==
  <<"M","o","z","i","l","l","a","/","5",".","0"," ","(","L","i","n","u","x",";"," ","A","n","d","r","o","i","d"," ","1","0",";"," ","S","M","-","G","9","7","5","F",")"," ","A","p","p","l","e","W","e","b","K","i","t","/","5","3","7",".","3","6"," ","(","K","H","T","M","L",","," ","l","i","k","e"," ","G","e","c","k","o",")"," ","C","h","r","o","m","e","/","9","1",".","0",".","4","4","7","2",".","1","6","4"," ","M","o","b","i","l","e"," ","S","a","f","a","r","i","/","5","3","7",".","3","6">>

\* the third-party-browser markers among the parts (matched in any letter case)
HasThirdPartyBrowserMarker(u) == u.vendor # "none" \/ u.model = "HUAWEI P30"

\* a device model of one to three capital letters and then digits only
HasShortModelToken(u) == u.device = "android" /\ u.model \in {"K", "A", "AB12"}

\* a Chrome major version the fingerprint counts as recent: 120 to 199 (what the
\* fingerprint does with larger majors is the subject of C17)
HasRecentChromeMajor(u) == u.chrome \in 120..199

GenericWebViewConditions(u) ==
  /\ u.device = "android"
  /\ u.chrome # 0
  /\ u.mobile
  /\ u.safari = "537.36" /\ u.markers = {}
  /\ ~HasThirdPartyBrowserMarker(u)
  /\ ~u.version
  /\ (HasShortModelToken(u) \/ HasRecentChromeMajor(u))

\* C3: a user agent that matches no app signature and not the embedded-Safari
\* rule is android_webview exactly when it contains Android, Chrome/ and Mobile,
\* ends with Safari/537.36, has no third-party-browser marker, no Version/<number>
\* and at least one fingerprint; otherwise it is not in-app.  The two user agents
\* of the test suite come out as android_webview and as not in-app.
C3_GenericWebViewExactly ==
  /\ Analyzed /\ MatchedApps = {} /\ snapshot.appName # "ios_safari_in_app" =>
       /\ snapshot.isInApp <=> GenericWebViewConditions(uaInput)
       /\ snapshot.isInApp => snapshot.appName = "android_webview"
       /\ ~snapshot.isInApp => snapshot.appName = undefined
  /\ Analyzed /\ userAgent = UA_AndroidWebViewK =>
       snapshot.isInApp /\ snapshot.appName = "android_webview"
  /\ Analyzed /\ userAgent = UA_AndroidChromeRealDevice => ~snapshot.isInApp

C3_Witness ==
  /\ Analyzed
  /\ userAgent = UA_AndroidWebViewK
  /\ snapshot.isInApp
  /\ snapshot.appName = "android_webview"

\* C4 as stated: a user agent containing SamsungBrowser/ is never in-app,
\* whatever else it contains.
C4_SamsungNeverInApp ==
  Analyzed /\ uaInput.vendor = "SamsungBrowser" =>
    ~snapshot.isInApp /\ snapshot.appName = undefined

\* C4, amended: a user agent containing SamsungBrowser/ that matches no app
\* signature and not the embedded-Safari rule is not in-app and has no appName,
\* even when the other conditions of the WebView heuristic hold.
C4_SamsungNotWebView ==
  Analyzed /\ uaInput.vendor = "SamsungBrowser" /\ MatchedApps = {}
    /\ snapshot.appName # "ios_safari_in_app" =>
      ~snapshot.isInApp /\ snapshot.appName = undefined

C4_Witness ==
  /\ Analyzed
  /\ uaInput.vendor = "SamsungBrowser"
  /\ GenericWebViewConditions([uaInput EXCEPT !.vendor = "none"])
  /\ ~snapshot.isInApp

(***************************************************************************)
(* The orchestrator, checked on the page (Spec).  A step of escape() is    *)
(* told by the call counter; what the call was given and what it returned  *)
(* is in the call record.                                                  *)
(***************************************************************************)
EscapeStep == call'.n = call.n + 1

Forced(o) == "force" \in DOMAIN o /\ o.force

WantsModal(o) == "showModal" \in DOMAIN o /\ o.showModal

TargetUrl(o) == IF "fallbackUrl" \in DOMAIN o THEN o.fallbackUrl ELSE locationHref

\* the step starts one performRedirect run on the URL for the latest call and
\* invokes the first strategy of the run within the step
StartsRedirect(url) ==
  /\ Len(runs') = Len(runs) + 1
  /\ SubSeq(runs', 1, Len(runs)) = runs
  /\ runs'[Len(runs')].url = url
  /\ runs'[Len(runs')].origin = [kind |-> "escape", id |-> call'.n]
  /\ runs'[Len(runs')].invoked = <<0>>
  /\ \E q \in 1..Len(requests') : q > Len(requests) /\ requests'[q].run = Len(runs')

\* the step makes one copy call for the URL, after the requests of the step
CopiesUrl(url) ==
  /\ Len(clipboard') = Len(clipboard) + 1
  /\ SubSeq(clipboard', 1, Len(clipboard)) = clipboard
  /\ clipboard'[Len(clipboard')].url = url
  /\ clipboard'[Len(clipboard')].after = Len(requests')
  /\ Len(requests') > Len(requests)

\* C5: an escape() call on a page that is not in-app, without force, returns
\* false and leaves the document, the requests, the timers, the runs and the
\* clipboard as they were.
C5_NoEffectOutsideInApp ==
  [][ (EscapeStep /\ ~call'.browserInfo.isInApp /\ ~Forced(call'.options))
        => /\ call'.ret = FALSE
           /\ UNCHANGED <<body, requests, timers, runs, clipboard>> ]_vars

\* a second call on a desktop page returned false while the overlay of the
\* first, forced call was in the document
C5_Witness ==
  /\ call.n = 2
  /\ uaInput.device = "windows"
  /\ ~call.browserInfo.isInApp
  /\ ~Forced(call.options)
  /\ call.ret = FALSE
  /\ \E e \in body : e.tag = "overlay"
  /\ Len(runs) = 1

\* C6: an escape() call with force returns true, starts performRedirect on the
\* target URL and makes a clipboard copy of it, on every page; it inserts no
\* modal, also when showModal is set.
C6_ForceRedirectsAndCopies ==
  [][ (EscapeStep /\ Forced(call'.options))
        => /\ call'.ret = TRUE
           /\ StartsRedirect(TargetUrl(call'.options))
           /\ CopiesUrl(TargetUrl(call'.options))
           /\ Modals' = Modals ]_vars

\* a forced call with showModal set, on a desktop page
C6_Witness ==
  /\ call.n = 1
  /\ ~call.browserInfo.isInApp
  /\ Forced(call.options)
  /\ WantsModal(call.options)
  /\ call.ret = TRUE
  /\ Len(runs) = 1
  /\ runs[1].url = DocumentUrl
  /\ Len(clipboard) = 1
  /\ Modals = {}

\* C7 as stated: escape({force: true}) inserts one quick-instructions overlay,
\* in-app or not.
C7_ForceShowsOverlay ==
  [][ (EscapeStep /\ call'.options = [force |-> TRUE])
        => \E e \in body' \ body : e.tag = "overlay" /\ body' = body \cup {e} ]_vars

C9_NoModalNoRedirect ==
  [][ (EscapeStep /\ call'.browserInfo.isInApp
         /\ call'.options = [showModal |-> FALSE, autoRedirect |-> FALSE])
        => /\ call'.ret = FALSE
           /\ Modals' = Modals
           /\ runs' = runs ]_vars

Configured(o, k, default) == IF k \in DOMAIN o THEN o[k] ELSE default

\* the step of an escape() call that is to show the modal
ShowsModalStep ==
  EscapeStep /\ call'.browserInfo.isInApp /\ WantsModal(call'.options) /\ ~Forced(call'.options)

\* escape() has been called once, to show the modal, and is not called again
OnlyModalCall ==
  /\ call.n = 1
  /\ budget.calls = 0
  /\ call.browserInfo.isInApp
  /\ WantsModal(call.options)
  /\ ~Forced(call.options)

\* C10: on an in-app page an escape() call with showModal and without force
\* returns true and inserts one modal with the configured message and button
\* text, and makes no request, copy, run or timer; a modal leaves the document
\* by a click only; and when that call is the only one, a run exists only once
\* the action button of its modal has been clicked.
C10_ModalWaitsForClick ==
  [][ /\ ShowsModalStep
        => /\ call'.ret = TRUE
           /\ \E m \in body' \ body :
                /\ body' = body \cup {m}
                /\ m.tag = "modal"
                /\ m.message = Configured(call'.options, "message",
                                 "For the best experience, please open this in your browser")
                /\ m.buttonText = Configured(call'.options, "buttonText", "Open in Browser")
                /\ m.url = TargetUrl(call'.options)
           /\ UNCHANGED <<requests, clipboard, runs, timers>>
      /\ Modals \subseteq Modals' \/ ClickOpen \/ ClickClose \/ ClickBackdrop
      /\ (OnlyModalCall /\ Modals # {})'
        => /\ requests' = <<>>
           /\ clipboard' = <<>>
           /\ runs' = <<>>
           /\ timers' = <<>>
      /\ (OnlyModalCall /\ runs # <<>>)'
        => /\ Modals' = {}
           /\ runs'[1].origin.kind = "click"
           /\ runs'[1].url = call'.url ]_vars

\* the modal of escape({showModal: true, message: ...}) is in the document of
\* the Instagram page and nothing else has happened
C10_Witness ==
  /\ OnlyModalCall
  /\ call.options = [showModal |-> TRUE, message |-> "Please open this page in your browser"]
  /\ call.ret = TRUE
  /\ \E m \in Modals :
       /\ Modals = {m}
       /\ m.message = "Please open this page in your browser"
       /\ m.buttonText = "Open in Browser"
  /\ requests = <<>>
  /\ runs = <<>>

\* the run a click on the action button of modal m starts
ClickRun(m) ==
  /\ Len(runs') = Len(runs) + 1
  /\ SubSeq(runs', 1, Len(runs)) = runs
  /\ LET run == runs'[Len(runs')]
     IN  /\ run.url = m.url
         /\ run.browserInfo = m.browserInfo
         /\ run.strategies = getRedirectStrategies(m.url, m.browserInfo)
         /\ run.origin = [kind |-> "click", id |-> m.id]
         /\ run.invoked = <<0>>

\* C11: a click on the action button of a modal starts one performRedirect run
\* with the URL and the snapshot the modal has kept since its escape() call,
\* then makes one clipboard copy of that URL, and removes that modal and no
\* other node; a click on the close button removes that modal and no other
\* node, and makes no request, copy, run or timer; the modals that are in the
\* document are never altered.
C11_ModalButtons ==
  [][ /\ ClickOpen
        => \E m \in Modals :
             /\ body' \cap body = body \ {m}
             /\ Modals' = Modals \ {m}
             /\ ClickRun(m)
             /\ CopiesUrl(m.url)
      /\ ClickClose
        => \E m \in Modals :
             /\ body' = body \ {m}
             /\ UNCHANGED <<requests, clipboard, runs, timers, console, created>>
      /\ EscapeStep
        => \A m \in Modals' \ Modals :
             m.url = TargetUrl(call'.options) /\ m.browserInfo = call'.browserInfo
      /\ Modals' \subseteq Modals \/ EscapeStep ]_vars

\* two modals were open; the action button of one has been clicked after the
\* application changed its route, and the other modal is still in the document
C11_Witness ==
  /\ call.n = 2
  /\ locationHref = RouteUrl
  /\ \E m \in Modals : Modals = {m}
  /\ Len(runs) = 1
  /\ runs[1].origin.kind = "click"
  /\ runs[1].url = DocumentUrl
  /\ runs[1].browserInfo = call.browserInfo
  /\ Len(clipboard) = 1
  /\ clipboard[1].url = DocumentUrl

\* the timers that continue run r
Continuations(r) ==
  {i \in 1..Len(timers) : timers[i].kind = "nextStrategy" /\ timers[i].run = r}

\* the positions of the calls run r has made for its attempts
Attempts(r) ==
  {q \in 1..Len(requests) : requests[q].run = r /\ requests[q].api # "location.assign"}

\* the run has stopped at a strategy that returned a truthy signal: its latest
\* attempt was answered without a failure and no further attempt is scheduled
StoppedAtTruthy(r) ==
  /\ runs[r].state = "succeeded"
  /\ Len(runs[r].invoked) >= 1
  /\ Continuations(r) = {}
  /\ \E q \in Attempts(r) :
       /\ \A o \in Attempts(r) : o <= q
       /\ Fault(requests[q].result) = 0

\* the run has invoked every strategy, none gave a truthy signal, and its
\* latest call is the direct navigation of the page to the URL of the run
FinalNavigation(r) ==
  /\ runs[r].state = "fallback"
  /\ Len(runs[r].invoked) = Len(runs[r].strategies)
  /\ Continuations(r) = {}
  /\ \E q \in Attempts(r) :
       /\ \A o \in Attempts(r) : o <= q
       /\ requests[q].api = "location.href"
       /\ requests[q].target = "_self"
       /\ requests[q].url = runs[r].url
       /\ \A o \in Attempts(r) \ {q} : Fault(requests[o].result) = 1

\* the run is between two attempts: the timer of the next one is set, for the
\* strategy after the last one invoked, and every attempt so far has failed
AwaitsNextAttempt(r) ==
  /\ runs[r].state = "running"
  /\ \E i \in Continuations(r) :
       /\ Continuations(r) = {i}
       /\ timers[i].index = Len(runs[r].invoked)
       /\ timers[i].delay = 100
  /\ \A o \in Attempts(r) : Fault(requests[o].result) = 1

\* the strategies of a run are invoked in the order of its list, each at most
\* once
InvokedInOrder(r) ==
  /\ Len(runs[r].invoked) <= Len(runs[r].strategies)
  /\ \A k \in 1..Len(runs[r].invoked) : runs[r].invoked[k] = k - 1

Ended(r) == r <= Len(runs) /\ runs[r].state # "running"

TookLegacyPath(i) == clipboard[i].modern \in {"rejected", "unavailable"}

\* C13: copyUrlToClipboard(url) copies the URL it is given, the URL of the
\* document when it is given none; while the modern call is pending the promise
\* is pending and no text field has been created; when the modern call resolves
\* the result is true and no text field is created; when it rejects, or cannot
\* be made, one text field is created and removed again and the result is what
\* the copy command returned, false when it threw; the promise is never
\* rejected and no text field is in the document.
C13_CopyFallsBack ==
  /\ \A e \in body : e.tag # "textarea"
  /\ \A i \in 1..Len(clipboard) :
       LET c == clipboard[i]
       IN  /\ c.url = (IF c.arg # <<>> THEN c.arg ELSE locationHref)
           /\ c.result \in {"pending", "true", "false"}
           /\ c.modern = "pending" => c.result = "pending" /\ c.field = 0 /\ c.legacy = "none"
           /\ c.modern = "resolved" => c.result = "true" /\ c.field = 0 /\ c.legacy = "none"
           /\ TookLegacyPath(i)
                => /\ c.field \in 1..created
                   /\ c.legacy \in CopyCommandResponses
                   /\ c.result = (IF c.legacy = "throw" THEN "false" ELSE c.legacy)

\* three copies of the document URL have settled: the modern call resolved for
\* one, and was rejected for two, of which the copy command returned false for
\* one and threw for the other
C13_Witness ==
  /\ Len(clipboard) = 3
  /\ \A i \in 1..3 : clipboard[i].arg = <<>> /\ clipboard[i].url = DocumentUrl
  /\ clipboard[1].modern = "resolved"
  /\ clipboard[1].result = "true"
  /\ clipboard[2].modern = "rejected"
  /\ clipboard[2].legacy = "false"
  /\ clipboard[2].result = "false"
  /\ clipboard[3].modern = "rejected"
  /\ clipboard[3].legacy = "throw"
  /\ clipboard[3].result = "false"
  /\ clipboard[3].field = 2
  /\ body = {}

\* the tokens of the platform classifier that a user agent contains as written
HasAndroidToken(u) ==
  u.device = "android" \/ u.markers \cap {"TwitterAndroid", "AndroidBridge"} # {}

HasIOSDeviceToken(u) == u.device = "iphone" \/ u.markers \cap {"FBAN", "TwitterForIPhone"} # {}

HasWindowsToken(u) == u.device = "windows"

HasMacToken(u) == u.device \in {"mac", "iphone"}

HasLinuxToken(u) == u.device \in {"linux", "android"}

PlatformByPriority(u) ==
  IF HasAndroidToken(u) THEN "android"
  ELSE IF HasIOSDeviceToken(u) THEN "ios"
  ELSE IF HasWindowsToken(u) THEN "windows"
  ELSE IF HasMacToken(u) THEN "mac"
  ELSE IF HasLinuxToken(u) THEN "linux"
  ELSE "unknown"

AsWritten == uaInput.casing = "as is"

\* C14: the platform of a user agent is android if it contains Android, else
\* ios if it contains iPad, iPhone or iPod, else windows, mac, linux by the tokens
\* Windows, Mac, Linux in this order, else unknown; so the Android device clause,
\* which contains Linux, is android and the iPhone clause, which contains Mac,
\* is ios.
C14_PlatformPriority ==
  /\ Analyzed /\ AsWritten => snapshot.platform = PlatformByPriority(uaInput)
  /\ Analyzed /\ AsWritten /\ uaInput.device = "android" => snapshot.platform = "android"
  /\ Analyzed /\ AsWritten /\ uaInput.device = "iphone" /\ ~HasAndroidToken(uaInput)
       => snapshot.platform = "ios"

\* an iPhone user agent with the marker of the Twitter app for Android has been
\* analyzed: it contains Android, iPhone and Mac
C14_Witness ==
  /\ Analyzed
  /\ uaInput.device = "iphone"
  /\ uaInput.markers = {"TwitterAndroid"}
  /\ HasMacToken(uaInput)
  /\ snapshot.platform = "android"

\* C15 as stated: the platform of a user agent does not depend on its letter
\* case: a user agent written in lower or in upper case has the platform of the
\* same user agent as written.
C15_PlatformIgnoresCase ==
  Analyzed => snapshot.platform = PlatformByPriority(uaInput)

\* one of the three rules of the cascade matches the user agent of the page
SomeRuleMatches ==
  \/ \E i \in 1..Len(IN_APP_PATTERNS) :
       /\ IN_APP_PATTERNS[i].appName # "android_webview"
       /\ PatternTest(IN_APP_PATTERNS[i], ToLower(userAgent))
  \/ isIOSSafariInApp(userAgent, windowSafari, windowWebkit)
  \/ isAndroidWebView(userAgent)

PlatformTags == {"android", "ios", "windows", "mac", "linux", "unknown"}

\* C16: in every snapshot of analyze() appName is present exactly when isInApp
\* is true, isInApp is true exactly when a rule of the cascade matches the user
\* agent, userAgent is the string that was classified, and platform is the tag
\* of the platform classifier for that string, whatever the verdict.
C16_SnapshotConsistent ==
  Analyzed =>
    /\ snapshot.appName # undefined <=> snapshot.isInApp
    /\ snapshot.isInApp <=> SomeRuleMatches
    /\ snapshot.userAgent = userAgent
    /\ snapshot.platform = getPlatform(userAgent)
    /\ snapshot.platform \in PlatformTags
    /\ AsWritten => snapshot.platform = PlatformByPriority(uaInput)

\* the snapshot of an iPhone page in an embedded Safari view
C16_Witness ==
  /\ Analyzed
  /\ snapshot.isInApp
  /\ snapshot.appName = "ios_safari_in_app"
  /\ snapshot.platform = "ios"
  /\ snapshot.userAgent = userAgent
  /\ uaInput.device = "iphone"

\* every requirement of the generic WebView heuristic but the fingerprint, on a
\* device whose model token is no fingerprint
RealDeviceMeetsOtherRequirements(u) ==
  /\ u.device = "android"
  /\ u.model = "SM-G975F"
  /\ u.chrome # 0
  /\ u.mobile
  /\ u.safari = "537.36"
  /\ u.markers = {}
  /\ u.vendor = "none"
  /\ ~u.version
  /\ u.casing = "as is"

\* C17 as stated: such a user agent is android_webview exactly when its Chrome
\* major version is 120 or more, whatever the number of its digits and its
\* first digit.
C17_RecentChromeFrom120 ==
  Analyzed /\ RealDeviceMeetsOtherRequirements(uaInput) =>
    (snapshot.appName = "android_webview" <=> uaInput.chrome >= 120)

\* what a method of the detector returns of a snapshot
MethodValue(method, info) ==
  CASE method = "analyze" -> info
    [] method = "isInAppBrowser" -> info.isInApp
    [] method = "getAppName" -> info.appName

SameEnvironment(a, b) ==
  a.userAgent = b.userAgent /\ a.safari = b.safari /\ a.webkit = b.webkit

\* the step of a call of the detector
DetectorStep == Len(returned') = Len(returned) + 1

EmbeddedSafariRule == isIOSSafariInApp(userAgent, windowSafari, windowWebkit)

GenericWebViewRule == isAndroidWebView(userAgent)

\* the android_webview entry of the signature table matches the user agent
WebViewEntryMatches ==
  \E i \in 1..Len(IN_APP_PATTERNS) :
    /\ IN_APP_PATTERNS[i].appName = "android_webview"
    /\ PatternTest(IN_APP_PATTERNS[i], ToLower(userAgent))

\* C19: a user agent that carries an app marker gets the identifier of its first
\* signature also when the embedded-Safari rule or the generic WebView rule
\* holds for it; ios_safari_in_app is returned exactly when no signature matches
\* and the embedded-Safari rule holds, android_webview exactly when neither of
\* them matches and the generic WebView rule holds; a user agent that matches
\* only the android_webview entry of the table is not in-app.
C19_RuleOrder ==
  Analyzed =>
    /\ MatchedApps # {} => snapshot.appName = FirstMatchedApp
    /\ snapshot.appName = "ios_safari_in_app" <=> MatchedApps = {} /\ EmbeddedSafariRule
    /\ snapshot.appName = "android_webview"
         <=> MatchedApps = {} /\ ~EmbeddedSafariRule /\ GenericWebViewRule
    /\ MatchedApps = {} /\ ~EmbeddedSafariRule /\ ~GenericWebViewRule
         => ~snapshot.isInApp /\ snapshot.appName = undefined

\* an Android user agent with the Instagram product token in front of its Chrome
\* token: the generic WebView rule holds for it, and it is instagram
C19_Witness ==
  /\ Analyzed
  /\ uaInput.markers = {"InstagramProduct"}
  /\ uaInput.device = "android"
  /\ GenericWebViewRule
  /\ WebViewEntryMatches
  /\ snapshot.appName = "instagram"

\* C20 as stated: a snapshot with appName ios_safari_in_app has platform ios, also
\* for a user agent that contains both Android and iPhone.
C20_EmbeddedSafariOnlyOnIOS ==
  Analyzed /\ snapshot.appName = "ios_safari_in_app" => snapshot.platform = "ios"

\* an iPhone or iPad user agent of Safari without a marker of another browser
IsPlainIOSSafari(u) ==
  /\ u.device = "iphone"
  /\ u.safari # "none"
  /\ u.chrome = 0
  /\ u.vendor = "none"
  /\ u.markers = {}
  /\ u.casing = "as is"

\* C21 as stated: where there is no window object analyze() never throws, and
\* for an iOS Safari user agent it returns a snapshot that is not in-app.
C21_NoWindowSkipsSilently ==
  \A i \in 1..Len(returned) :
    /\ returned[i].value # ReferenceError
    /\ IsPlainIOSSafari(uaInput)
         => returned[i].value.userAgent = userAgent /\ ~returned[i].value.isInApp

\* the six strategies that do not depend on the platform, in their order
SixUniversal ==
  <<"windowOpenBlank", "windowOpenTop", "anchorClick", "formSubmit", "locationAssignDelayed",
    "locationHref">>

\* the list a platform gets
ListOf(platform) ==
  CASE platform = "ios" -> <<"iosSafariHttps">> \o SixUniversal
    [] platform = "android" -> <<"androidIntent">> \o SixUniversal
    [] OTHER -> SixUniversal

\* the first call run r has made
FirstAttempt(r) ==
  requests[CHOOSE q \in Attempts(r) : \A o \in Attempts(r) : q <= o]

\* what the strategy at the head of the list of run r asks of the browser
HeadRequest(r) ==
  CASE runs[r].browserInfo.platform = "ios" ->
         [api |-> "location.href", target |-> "_self", url |-> iosSafariHttpsUrl(runs[r].url)]
    [] runs[r].browserInfo.platform = "android" ->
         [api |-> "location.href", target |-> "_self", url |-> androidIntentUrl(runs[r].url)]
    [] OTHER ->
         [api |-> "window.open", target |-> "_blank", url |-> runs[r].url]

\* C22: the strategy list of a URL and snapshot is the scheme-rewrite strategy
\* and the six universal strategies on ios, the intent strategy and the six
\* universal strategies on android, and the six universal strategies on every
\* other platform; the universal strategies are in the order window.open
\* _blank, window.open _top, anchor click, form submit, blank context with
\* delayed assignment, direct navigation; the list is never empty and ends
\* with the direct navigation; every run works on the list of its snapshot.
C22_StrategyList ==
  /\ \A platform \in PlatformTags, url \in {DocumentUrl, OtherUrl} :
       LET list == getRedirectStrategies(url, [NoSnapshot EXCEPT !.platform = platform])
       IN  /\ list = ListOf(platform)
           /\ Len(list) >= 6
           /\ list[Len(list)] = "locationHref"
  /\ \A r \in 1..Len(runs) :
       /\ runs[r].strategies = ListOf(runs[r].browserInfo.platform)
       /\ runs[r].strategies[Len(runs[r].strategies)] = "locationHref"
       /\ Attempts(r) # {} =>
            /\ FirstAttempt(r).api = HeadRequest(r).api
            /\ FirstAttempt(r).target = HeadRequest(r).target
            /\ FirstAttempt(r).url = HeadRequest(r).url

\* on the Android page a run has gone through its whole list: the intent
\* strategy, then the six universal ones, the last of them the direct navigation
C22_Witness ==
  /\ Len(runs) = 1
  /\ runs[1].browserInfo.platform = "android"
  /\ runs[1].strategies[1] = "androidIntent"
  /\ runs[1].invoked = <<0, 1, 2, 3, 4, 5, 6>>

\* the indexes run r had invoked before the step (none for a run the step starts)
InvokedBefore(r) == IF r <= Len(runs) THEN runs[r].invoked ELSE <<>>

\* the step invokes one strategy of run r: the one after the last it had invoked
InvokesNext(r) == runs'[r].invoked = Append(InvokedBefore(r), Len(InvokedBefore(r)))

\* the step invokes no strategy of run r
InvokesNone(r) == runs'[r].invoked = InvokedBefore(r)

\* the answers to the calls run r made for the strategies before its latest call
EarlierAnswers(r) ==
  {requests[o].result : o \in {q \in Attempts(r) : \E n \in Attempts(r) : q < n}}

\* C23: within one performRedirect run the strategies are invoked by
\* increasing index from 0, one index after the other, none twice and none
\* skipped; the run stops at the first strategy that gives a truthy signal, and
\* no strategy is invoked in that run afterwards.
C23_IncreasingIndexOrder ==
  [][\A r \in 1..Len(runs') :
       /\ InvokesNext(r) \/ InvokesNone(r)
       /\ Len(runs'[r].invoked) <= Len(runs'[r].strategies)
       /\ r <= Len(runs) => runs'[r].strategies = runs[r].strategies
       /\ r <= Len(runs) /\ runs[r].state = "succeeded"
            => InvokesNone(r) /\ runs'[r].state = "succeeded"
       /\ runs'[r].state = "succeeded" /\ ~(r <= Len(runs) /\ runs[r].state = "succeeded")
            => /\ InvokesNext(r)
               /\ \A o \in Attempts(r) : Fault(requests[o].result) = 1]_vars

\* on the desktop page two strategies have failed, the third has given a truthy
\* signal, and every timer has fired since: no strategy after the third was invoked
C23_Witness ==
  /\ Len(runs) = 1
  /\ runs[1].state = "succeeded"
  /\ runs[1].invoked = <<0, 1, 2>>
  /\ runs[1].strategies[3] = "anchorClick"
  /\ \A a \in EarlierAnswers(1) : Fault(a) = 1
  /\ timers = <<>>

\* the step runs the callback of the timer that continues run r at the given
\* index, set with a delay of 100 ms
FiresContinuation(r, index) ==
  /\ \E i \in Continuations(r) :
       /\ Continuations(r) = {i}
       /\ timers[i].index = index
       /\ timers[i].delay = 100
  /\ \A j \in 1..Len(timers') :
       timers'[j].kind = "nextStrategy" /\ timers'[j].run = r => timers'[j].index = index + 1

\* after the step run r waits for the timer of its next attempt
ContinuationSet(r) ==
  \E j \in 1..Len(timers') :
    /\ timers'[j].kind = "nextStrategy"
    /\ timers'[j].run = r
    /\ timers'[j].delay = 100
    /\ timers'[j].index = Len(runs'[r].invoked)

\* C24: after a strategy has returned false or thrown, the next strategy is
\* not invoked in the same turn but by a timer of 100 ms; escape() and
\* performRedirect() return when at most the strategy at index 0 has been
\* invoked, and every later attempt, and the final navigation, runs in the
\* callback of such a timer.
C24_NextAttemptOnLaterTurn ==
  [][\A r \in 1..Len(runs') :
       /\ r > Len(runs) =>
            /\ runs'[r].invoked = <<0>>
            /\ runs'[r].state \in {"running", "succeeded"}
       /\ r <= Len(runs) /\ ~InvokesNone(r) =>
            /\ InvokesNext(r)
            /\ FiresContinuation(r, Len(runs[r].invoked))
            /\ call' = call
       /\ r <= Len(runs) /\ runs'[r].state = "fallback" /\ runs[r].state # "fallback" =>
            /\ InvokesNone(r)
            /\ FiresContinuation(r, Len(runs[r].strategies))
            /\ call' = call
       /\ ~InvokesNone(r) /\ runs'[r].state = "running" => ContinuationSet(r)]_vars

\* escape() has returned true on the desktop page: the strategy at index 0 has
\* been invoked and has failed, no other has been invoked, and the timer of the
\* attempt at index 1 is pending
C24_Witness ==
  /\ call.n = 1
  /\ call.ret
  /\ Len(runs) = 1
  /\ runs[1].origin.kind = "escape"
  /\ runs[1].invoked = <<0>>
  /\ runs[1].state = "running"
  /\ \E i \in Continuations(1) : timers[i].index = 1 /\ timers[i].delay = 100
  /\ \A q \in Attempts(1) : requests[q].api = "window.open" /\ Fault(requests[q].result) = 1

\* the strategy the step has invoked in run r
InvokedName(r) == runs'[r].strategies[Len(runs'[r].invoked)]

\* the requests the step has added
NewRequests == {q \in 1..Len(requests') : q > Len(requests)}

\* the strategy the step has invoked in run r has thrown. The anchor and the
\* form strategy give no signal but true unless they throw.
Threw(r) ==
  /\ ~InvokesNone(r)
  /\ runs'[r].state = "running"
  /\ \/ InvokedName(r) \in {"anchorClick", "formSubmit"}
     \/ \E q \in NewRequests : requests'[q].run = r /\ requests'[q].result = "throw"

\* the lines the step has written to the console
NewLines == {k \in 1..Len(console') : k > Len(console)}

\* C25: a strategy that throws is not fatal: escape() and the click handler
\* complete, the run stays alive and the executor sets the timer of the next
\* index as it does after a false return; the failure is written to the
\* console when the debug flag is on and only then, and while the flag is off
\* the engine writes nothing to the console.
C25_ThrowIsNotFatal ==
  [][/\ SubSeq(console', 1, Len(console)) = console
     /\ ~debug' => console' = console
     /\ \A k \in NewLines : console'[k].text = "Strategy failed:" => Threw(console'[k].run)
     /\ \A r \in 1..Len(runs') :
          Threw(r) =>
            /\ ContinuationSet(r)
            /\ call' # call => call'.ret
            /\ debug' <=> \E k \in NewLines :
                            console'[k] = Line("warn", "Strategy failed:", r, InvokedName(r))]_vars

\* with the debug flag on, the first strategy of a run has thrown: escape() has
\* returned true, the failure is on the console, and the timer of the attempt
\* at index 1 is pending
C25_Witness ==
  /\ debug
  /\ call.n = 1
  /\ call.ret
  /\ Len(runs) = 1
  /\ runs[1].invoked = <<0>>
  /\ runs[1].state = "running"
  /\ \E q \in Attempts(1) : requests[q].result = "throw"
  /\ \E k \in 1..Len(console) :
       console[k] = Line("warn", "Strategy failed:", 1, runs[1].strategies[1])
  /\ \E i \in Continuations(1) : timers[i].index = 1

\* C26 as stated: after any sequence of escape() calls, those that return
\* false included, the debug flag is the debug setting of the most recent
\* call: true when that call passed debug: true, false when it passed
\* debug: false or no debug option; before the first call it is false.
C26_FlagIsLastSetting ==
  /\ call.n = 0 => ~debug
  /\ call.n >= 1 => (debug <=> Truthy(call.options, "debug"))

\* the timers that do not belong to run r, before and after the step
TimersOfOthers(r) == {timers[j] : j \in {i \in 1..Len(timers) : timers[i].run # r}}

TimersOfOthersAfter(r) == {timers'[j] : j \in {i \in 1..Len(timers') : timers'[i].run # r}}

\* the lines on the console that run r has written
LinesOf(r, text) == {k \in 1..Len(console) : console[k].run = r /\ console[k].text = text}

\* C27: when escape() is called while the strategy sequence of an earlier call
\* waits for its timer, the lines the earlier sequence writes from then on are
\* gated by the flag the later call has written, whatever the flag was when
\* the sequence started; and a step of one sequence changes neither the record
\* nor the timers of the other.
C27_LogGatedByLatestFlag ==
  [][/\ debug' # debug => call' # call
     /\ \A r \in 1..Len(runs) :
          runs'[r] # runs[r] =>
            /\ call' = call
            /\ ({k \in NewLines : console'[k].run = r} # {}) <=> debug
            /\ \A k \in NewLines : console'[k].run = r
            /\ \A o \in 1..Len(runs') : o # r => o <= Len(runs) /\ runs'[o] = runs[o]
            /\ TimersOfOthersAfter(r) = TimersOfOthers(r)
     /\ \A r \in 1..Len(runs') :
          r > Len(runs) =>
            /\ \A o \in 1..Len(runs) : runs'[o] = runs[o]
            /\ TimersOfOthers(r) \subseteq TimersOfOthersAfter(r)
            /\ \A k \in NewLines : console'[k].run = r]_vars

\* a first call with debug on has started a sequence whose first attempt
\* failed; a second call has switched the flag off and started its own
\* sequence; then the first sequence has made its second attempt, which is not
\* on the console
C27_Witness ==
  /\ call.n = 2
  /\ ~debug
  /\ Len(runs) = 2
  /\ Len(runs[1].invoked) = 2
  /\ LinesOf(1, "Starting enhanced redirect for:") # {}
  /\ Cardinality(LinesOf(1, "Trying strategy")) = 1
  /\ \A k \in 1..Len(console) : console[k].run = 1

\* the requests run r has issued, delayed assignments included
RequestsOf(r) == {q \in 1..Len(requests) : requests[q].run = r}

\* C28: on an ios or android snapshot the strategy at index 0 gives a truthy
\* signal unless its navigation throws, so the run invokes that one strategy,
\* issues that one request and neither a universal strategy nor the final
\* navigation runs; a universal strategy runs on these platforms only after
\* the navigation of the strategy at index 0 has thrown.
C28_PlatformStrategyDecides ==
  \A r \in 1..Len(runs) :
    runs[r].browserInfo.platform \in {"ios", "android"} =>
      /\ Attempts(r) # {}
      /\ FirstAttempt(r).api = "location.href"
      /\ FirstAttempt(r).result # "throw" =>
           /\ runs[r].state = "succeeded"
           /\ runs[r].invoked = <<0>>
           /\ Continuations(r) = {}
           /\ Cardinality(RequestsOf(r)) = 1
      /\ Len(runs[r].invoked) > 1 \/ runs[r].state = "fallback" =>
           FirstAttempt(r).result = "throw"

\* on the iPhone page a run has navigated to the x-safari-https URL and has
\* ended there: one strategy invoked, one request, no timer left
C28_Witness ==
  /\ Len(runs) = 1
  /\ runs[1].browserInfo.platform = "ios"
  /\ runs[1].state = "succeeded"
  /\ runs[1].invoked = <<0>>
  /\ Len(requests) = 1
  /\ requests[1].url = iosSafariHttpsUrl(runs[1].url)
  /\ requests[1].result = "ok"
  /\ timers = <<>>

\* the timers of run r whose callback navigates or invokes a strategy
NavigatingTimers(r) ==
  {i \in 1..Len(timers) :
     timers[i].run = r /\ timers[i].kind \in {"nextStrategy", "locationAssign"}}

\* C29: once a strategy of a run has given a truthy signal, no timer that
\* would invoke a strategy, make the final navigation or make the delayed
\* assignment of the blank-context strategy is pending for that run, and no
\* later step adds a request or an invocation to it.
C29_NothingAfterSuccess ==
  /\ [](\A r \in 1..Len(runs) : runs[r].state = "succeeded" => NavigatingTimers(r) = {})
  /\ [][\A r \in 1..Len(runs) :
          runs[r].state = "succeeded" =>
            /\ runs'[r] = runs[r]
            /\ \A q \in NewRequests : requests'[q].run # r]_vars

\* on the desktop page five strategies have failed, the delayed assignment of
\* the fifth has fired, the direct navigation has given the truthy signal, and
\* every timer has fired since
C29_Witness ==
  /\ Len(runs) = 1
  /\ runs[1].state = "succeeded"
  /\ runs[1].invoked = <<0, 1, 2, 3, 4, 5>>
  /\ \E q \in RequestsOf(1) : requests[q].api = "location.assign"
  /\ requests[Len(requests)].api = "location.href"
  /\ timers = <<>>

\* the delayed assignments pending for run r after the step
DelayedAfter(r) ==
  {j \in 1..Len(timers') : timers'[j].run = r /\ timers'[j].kind = "locationAssign"}

\* the step has called window.open for a blank context in run r and the
\* browser has answered with a window
BlankContextOpened(r) ==
  \E q \in NewRequests :
    /\ requests'[q].run = r
    /\ requests'[q].api = "window.open"
    /\ requests'[q].url = <<>>
    /\ requests'[q].result = "window"

\* run r has asked twice for a navigation of the current context to its URL:
\* by the delayed assignment and, after it, by the direct navigation
NavigatedTwice(r) ==
  \E a \in RequestsOf(r), d \in RequestsOf(r) :
    /\ a < d
    /\ requests[a].api = "location.assign"
    /\ requests[d].api = "location.href"
    /\ requests[a].target = "_self" /\ requests[d].target = "_self"
    /\ requests[a].url = runs[r].url /\ requests[d].url = runs[r].url

\* C30: the blank-context strategy cancels its delayed assignment exactly when
\* the blank context opened. When it did not open, or opening threw, the
\* strategy fails and the assignment stays set, for 100 ms and for the URL of
\* the run, ahead of the executor's timer; it fires before the direct
\* navigation is invoked, so the current context is asked twice to navigate to
\* the URL.
C30_DelayedAssignment ==
  /\ [][\A r \in 1..Len(runs') :
          ~InvokesNone(r) /\ InvokedName(r) = "locationAssignDelayed" =>
            /\ BlankContextOpened(r) <=> DelayedAfter(r) = {}
            /\ BlankContextOpened(r) <=> runs'[r].state = "succeeded"
            /\ ~BlankContextOpened(r) =>
                 \E j \in DelayedAfter(r) :
                   /\ DelayedAfter(r) = {j}
                   /\ timers'[j].delay = 100
                   /\ timers'[j].url = runs'[r].url
                   /\ \E n \in 1..Len(timers') :
                        /\ j < n
                        /\ timers'[n].kind = "nextStrategy"
                        /\ timers'[n].run = r
                        /\ timers'[n].delay = 100]_vars
  /\ [](\A r \in 1..Len(runs) :
          Len(runs[r].invoked) = Len(runs[r].strategies) => NavigatedTwice(r))

\* on the iPhone page the blank context has not opened, the delayed
\* assignment has fired, and then the direct navigation has been invoked
C30_Witness ==
  /\ Len(runs) = 1
  /\ runs[1].browserInfo.platform = "ios"
  /\ Len(runs[1].invoked) = 7
  /\ NavigatedTwice(1)
  /\ \E q \in RequestsOf(1) :
       /\ requests[q].api = "window.open"
       /\ requests[q].url = <<>>
       /\ requests[q].result = "null"

=============================================================================
